---- MODULE Spec2Model ----
(***************************************************************************)
(* ProxWarden: the health monitor (package monitor), the failover engine   *)
(* (package failover) and the daemon wiring that connects them.            *)
(***************************************************************************)
EXTENDS Integers, Sequences, FiniteSets, TLC

(***************************************************************************)
(* Bounds of the model.                                                    *)
(***************************************************************************)
\* Number of ticker firings the model follows.
MaxTicks == 5
\* Longest failover_nodes list the selector is tried on.
MaxCand == 3
\* Largest failover.max_retries the recovery is tried with.
MaxRetriesTried == 3
\* Ticks the monitor of two containers is followed for.
MaxPairTicks == 2
\* Ticks the monitor of one container is followed for while a caller holds a state.
MaxCopyTicks == 1
\* How far the wall clock is set back when it is adjusted during a recovery.
ClockStepBack == 100

(***************************************************************************)
(* Configuration (config.Config).                                          *)
(***************************************************************************)
\* monitoring.failure_threshold, the loader's default.
FailureThreshold == 3

\* The container ids a configuration may name (monitoring.containers[*].id).
Containers == {100, 101}

\* Names of the cluster's nodes.
Nodes == {"node1", "node2", "node3"}

\* monitoring.containers[*].failover_nodes
FailoverNodes(c) == IF c = 100 THEN <<"node2", "node3">> ELSE <<"node3", "node2">>

\* len(monitoring.containers[*].health_checks)
NumHealthChecks(c) == IF c = 100 THEN 2 ELSE 1

\* Number of callbacks registered with AddFailureCallback (daemon.New adds one).
NumCallbacks == 1

VARIABLES
    monitored,     \* config.Monitoring.Containers: the ids of the configured containers
    autoFailover,  \* config.Failover.AutoFailover
    horizon,       \* number of ticker firings followed in this run
    ctxDone,       \* the context given to Monitor.Start has been cancelled
    monPc,         \* Monitor.Start: "new", "waiting" (in select), "checking" (in
                   \* checkAllContainers), "returned" (with ctx.Err())
    now,           \* number of ticks so far; stands for time.Now()
    states,        \* Monitor.states: container id -> ContainerState
    chk,           \* the checkContainer goroutine of each container in the current tick
    pre,           \* the counters and probe batch of each container when its current cycle began
    pendingCb,     \* callback goroutines spawned by recordFailure and not yet run, per container
    firedInRun,    \* callback dispatches since the container's last healthy cycle
    inflight,      \* performFailover executions in progress, per container
    selIn,         \* selectBestNode: the inputs of the call under study
    selOut,        \* selectBestNode: its result
    foCfg,         \* config.Failover as seen by the recovery under study
    fo,            \* the recovery under study: where it is and what it has done
    held,          \* what a caller of GetContainerState / GetAllStates was handed
    failedAt,      \* the tick during which a recovery first failed, 0 while none has
    probeIn,       \* RunHealthCheck: the inputs of the call under study
    probeOut,      \* RunHealthCheck: its result
    findIn,        \* findLatestBackup: the inputs of the call under study
    findOut,       \* findLatestBackup: what it returned
    running,       \* per container, the checkContainer goroutines that have not returned
    ended          \* the recoveries that have returned, by their outcome

vars == <<monitored, autoFailover, horizon, ctxDone, monPc, now, states, chk, pre, pendingCb, firedInRun,
          inflight, selIn, selOut, foCfg, fo, held, failedAt, probeIn, probeOut,
          findIn, findOut, running, ended>>

cfgVars == <<monitored, autoFailover, horizon>>
monVars == <<monPc, now, states, chk, pre, pendingCb, firedInRun>>
selVars == <<selIn, selOut>>
foVars == <<foCfg, fo>>
probeVars == <<probeIn, probeOut>>
findVars == <<findIn, findOut>>
otherObs == <<held, failedAt, probeVars, findVars, ended>>
obsVars == <<otherObs, running>>

(***************************************************************************)
(* Engine.selectBestNode                                                   *)
(***************************************************************************)
\* nodeStatus: the map built from GetNodes, node name -> Online.
\* A candidate is [name, priority, online].

\* The loop over FailoverNodes: skip the current node and nodes missing from
\* the cluster; priority is the 0-based index in the configured list.
\* The loop without its "skip current node" test.
RECURSIVE CandidatesKeepCurrent(_, _, _, _)
CandidatesKeepCurrent(failoverNodes, currentNode, nodeStatus, i) ==
    IF i > Len(failoverNodes) THEN <<>>
    ELSE LET nodeName == failoverNodes[i]
             rest == CandidatesKeepCurrent(failoverNodes, currentNode, nodeStatus, i + 1)
         IN  IF nodeName \notin DOMAIN nodeStatus THEN rest
             ELSE <<[name |-> nodeName, priority |-> i - 1,
                     online |-> nodeStatus[nodeName]]>> \o rest

RECURSIVE Candidates(_, _, _, _)
Candidates(failoverNodes, currentNode, nodeStatus, i) ==
    IF i > Len(failoverNodes) THEN <<>>
    ELSE LET nodeName == failoverNodes[i]
             rest == Candidates(failoverNodes, currentNode, nodeStatus, i + 1)
         IN  IF nodeName = currentNode THEN rest
             ELSE IF nodeName \notin DOMAIN nodeStatus THEN rest
             ELSE <<[name |-> nodeName, priority |-> i - 1,
                     online |-> nodeStatus[nodeName]]>> \o rest

\* A comparator that orders by configured priority alone.
CandLessByPriority(a, b) == a.priority < b.priority

\* A comparator that looks at the online flag alone.
CandLessOnlineOnly(a, b) == a.online # b.online /\ a.online

\* The comparator handed to sort.Slice.
CandLess(a, b) ==
    IF a.online # b.online THEN a.online
    ELSE a.priority < b.priority

\* sort.Slice with CandLess: insertion of x into an already sorted sequence.
RECURSIVE InsertCand(_, _)
InsertCand(x, s) ==
    IF s = <<>> THEN <<x>>
    ELSE IF CandLess(x, Head(s)) THEN <<x>> \o s
    ELSE <<Head(s)>> \o InsertCand(x, Tail(s))

RECURSIVE SortCands(_)
SortCands(s) ==
    IF s = <<>> THEN <<>>
    ELSE InsertCand(Head(s), SortCands(Tail(s)))

SelErr(e) == [ok |-> FALSE, node |-> "", err |-> e]
SelOk(n)  == [ok |-> TRUE, node |-> n, err |-> ""]

\* selectBestNode without its final "is candidates[0] online" test.
SelectBestNodeNoOnlineTest(failoverNodes, currentNode, nodes) ==
    IF Len(failoverNodes) = 0 THEN SelErr("no failover nodes configured")
    ELSE IF nodes.err THEN SelErr("failed to get nodes")
    ELSE LET candidates == Candidates(failoverNodes, currentNode, nodes.status, 1)
             sorted == SortCands(candidates)
         IN  IF Len(candidates) = 0 THEN SelErr("no available failover nodes")
             ELSE SelOk(sorted[1].name)

\* nodes: [err |-> BOOLEAN, status |-> node name -> Online], the answer of GetNodes.
SelectBestNode(failoverNodes, currentNode, nodes) ==
    IF Len(failoverNodes) = 0 THEN SelErr("no failover nodes configured")
    ELSE IF nodes.err THEN SelErr("failed to get nodes")
    ELSE LET candidates == Candidates(failoverNodes, currentNode, nodes.status, 1)
             sorted == SortCands(candidates)
         IN  IF Len(candidates) = 0 THEN SelErr("no available failover nodes")
             ELSE IF ~sorted[1].online THEN SelErr("no online failover nodes available")
             ELSE SelOk(sorted[1].name)

\* Every answer GetNodes can give: an error, or the nodes of the cluster with
\* their online flags (a node may be missing from the listing).
NodeSnapshots ==
    {[err |-> TRUE, status |-> <<>>]} \cup
    {[err |-> FALSE, status |-> f] :
        f \in UNION {[S -> BOOLEAN] : S \in SUBSET Nodes}}

(***************************************************************************)
(* Monitor                                                                 *)
(***************************************************************************)
\* Monitor.Start, the initialisation loop: one ContainerState per configured container.
\* A Start that creates the states as already failed once.
NewStateFailed(c) ==
    [ID |-> c, Node |-> "", LastSeen |-> now, FailureCount |-> 1, HealthyCount |-> 0,
     Status |-> "failed", LastHealthCheck |-> 0, HealthResults |-> <<>>]

NewState(c) ==
    [ID |-> c, Node |-> "", LastSeen |-> now, FailureCount |-> 0, HealthyCount |-> 0,
     Status |-> "unknown", LastHealthCheck |-> 0, HealthResults |-> <<>>]

IdleChk == [pc |-> "idle", err |-> FALSE, status |-> "", results |-> <<>>, allHealthy |-> TRUE]

\* The part of a ContainerState a check cycle may count in.
Snapshot(st) ==
    [FailureCount |-> st.FailureCount, HealthyCount |-> st.HealthyCount,
     LastHealthCheck |-> st.LastHealthCheck, HealthResults |-> st.HealthResults]

StartInit ==
    /\ monPc = "new"
    /\ monPc' = "waiting"
    /\ states' = [c \in monitored |-> NewState(c)]
    /\ pre' = [c \in monitored |-> [snap |-> Snapshot(NewState(c)), fired |-> 0]]
    /\ UNCHANGED <<cfgVars, ctxDone, obsVars, now, chk, pendingCb, firedInRun, inflight, selVars, foVars>>

\* checkContainer returns and its deferred wg.Done() runs.
GoroutineReturns(c) == running' = [running EXCEPT ![c] = @ - 1]

\* Monitor.Start, case <-ticker.C: checkAllContainers spawns one goroutine per container.
TickStart ==
    /\ monPc = "waiting"
    /\ now < horizon
    /\ now' = now + 1
    /\ monPc' = "checking"
    /\ chk' = [c \in monitored |-> [IdleChk EXCEPT !.pc = "fetch"]]
    /\ pre' = [c \in monitored |-> [snap |-> Snapshot(states[c]), fired |-> firedInRun[c]]]
    /\ running' = [c \in monitored |-> running[c] + 1]
    /\ UNCHANGED <<cfgVars, ctxDone, otherObs, states, pendingCb, firedInRun, inflight, selVars, foVars>>

\* runDaemon: SIGINT or SIGTERM arrives and the context of the daemon is cancelled.
Cancel ==
    /\ ~ctxDone
    /\ ctxDone' = TRUE
    /\ UNCHANGED <<cfgVars, obsVars, monVars, inflight, selVars, foVars>>

\* A Monitor.Start whose loop goes round again when the context is done.
MonReturnKeepsLooping ==
    /\ monPc = "waiting"
    /\ ctxDone
    /\ UNCHANGED vars

\* Monitor.Start, case <-ctx.Done(): return ctx.Err().
MonReturn ==
    /\ monPc = "waiting"
    /\ ctxDone
    /\ monPc' = "returned"
    /\ UNCHANGED <<cfgVars, ctxDone, obsVars, now, states, chk, pre, pendingCb, firedInRun,
                   inflight, selVars, foVars>>

\* A checkAllContainers that also waits for the callbacks and recoveries of its containers.
TickJoinWaitsCallbacks ==
    /\ monPc = "checking"
    /\ \A c \in monitored : chk[c].pc = "done" /\ pendingCb[c] = 0 /\ inflight[c] = 0
    /\ monPc' = "waiting"
    /\ chk' = [c \in monitored |-> IdleChk]
    /\ UNCHANGED <<cfgVars, ctxDone, obsVars, now, states, pre, pendingCb, firedInRun, inflight, selVars, foVars>>

\* A checkAllContainers that does not wait for its goroutines at all.
TickJoinNoWait ==
    /\ monPc = "checking"
    /\ monPc' = "waiting"
    /\ chk' = [c \in monitored |-> IdleChk]
    /\ UNCHANGED <<cfgVars, ctxDone, obsVars, now, states, pre, pendingCb, firedInRun, inflight, selVars, foVars>>

\* A checkAllContainers that returns as soon as one goroutine is done.
TickJoinFirstDone ==
    /\ monPc = "checking"
    /\ \E c \in monitored : chk[c].pc = "done"
    /\ monPc' = "waiting"
    /\ chk' = [c \in monitored |-> IdleChk]
    /\ UNCHANGED <<cfgVars, ctxDone, obsVars, now, states, pre, pendingCb, firedInRun, inflight, selVars, foVars>>

\* checkAllContainers: wg.Wait() returns once every goroutine is done.
TickJoin ==
    /\ monPc = "checking"
    /\ \A c \in monitored : chk[c].pc = "done"
    /\ monPc' = "waiting"
    /\ chk' = [c \in monitored |-> IdleChk]
    /\ UNCHANGED <<cfgVars, ctxDone, obsVars, now, states, pre, pendingCb, firedInRun, inflight, selVars, foVars>>

\* Dispatch only at the cycle where the count reaches the threshold.
FailureDispatchesOnCrossing(failureCount) ==
    IF failureCount = FailureThreshold THEN NumCallbacks ELSE 0

\* Monitor.recordFailure: the number of goroutines it spawns at this count.
FailureDispatches(failureCount) ==
    IF failureCount >= FailureThreshold THEN NumCallbacks ELSE 0

\* A recordFailure that also restarts the healthy streak.
RecordFailureResetsHealthy(c) ==
    LET failureCount == states[c].FailureCount + 1
    IN  /\ states' = [states EXCEPT ![c].FailureCount = failureCount,
                                    ![c].HealthyCount = 0]
        /\ pendingCb' = [pendingCb EXCEPT ![c] = @ + FailureDispatches(failureCount)]
        /\ firedInRun' = [firedInRun EXCEPT ![c] = @ + FailureDispatches(failureCount)]

\* Monitor.recordFailure
RecordFailure(c) ==
    LET failureCount == states[c].FailureCount + 1
    IN  /\ states' = [states EXCEPT ![c].FailureCount = failureCount]
        /\ pendingCb' = [pendingCb EXCEPT ![c] = @ + FailureDispatches(failureCount)]
        /\ firedInRun' = [firedInRun EXCEPT ![c] = @ + FailureDispatches(failureCount)]

\* A recordSuccess that forgets to reset the failure count.
SuccessFailureCountKept(failureCount) == failureCount

\* Monitor.recordSuccess: the failure count it leaves.
SuccessFailureCount(failureCount) == IF failureCount > 0 THEN 0 ELSE failureCount

RecordSuccess(c) ==
    /\ states' = [states EXCEPT ![c].HealthyCount = @ + 1,
                                ![c].FailureCount = SuccessFailureCount(@)]
    /\ firedInRun' = [firedInRun EXCEPT ![c] = 0]
    /\ UNCHANGED pendingCb

\* A fail-open checkContainer: a failed GetContainer just ends the cycle.
CheckFetchErrFailOpen(c) ==
    /\ chk[c].pc = "fetch"
    /\ chk' = [chk EXCEPT ![c].pc = "done", ![c].err = TRUE]
    /\ GoroutineReturns(c)
    /\ UNCHANGED <<cfgVars, ctxDone, otherObs, monPc, now, states, pre, pendingCb, firedInRun, inflight, selVars, foVars>>

\* checkContainer: GetContainer fails, the cycle is recorded as a failure.
CheckFetchErr(c) ==
    /\ chk[c].pc = "fetch"
    /\ chk' = [chk EXCEPT ![c].pc = "done", ![c].err = TRUE]
    /\ RecordFailure(c)
    /\ GoroutineReturns(c)
    /\ UNCHANGED <<cfgVars, ctxDone, otherObs, monPc, now, pre, inflight, selVars, foVars>>

\* A checkContainer that probes whatever the status is.
AfterStatusNoSkip(status) == "probe"

\* What checkContainer does after the Node/Status update, by status.
AfterStatus(status) == IF status # "running" THEN "done" ELSE "probe"

\* checkContainer: GetContainer answers; Node, Status and LastSeen are updated;
\* a container that is not running is left alone.
CheckFetchOk(c) ==
    /\ chk[c].pc = "fetch"
    /\ \E node \in Nodes, status \in {"running", "stopped"} :
          /\ states' = [states EXCEPT ![c].Node = node, ![c].Status = status,
                                      ![c].LastSeen = now]
          /\ chk' = [chk EXCEPT ![c].pc = AfterStatus(status), ![c].status = status]
    /\ IF chk'[c].pc = "done" THEN GoroutineReturns(c) ELSE UNCHANGED running
    /\ UNCHANGED <<cfgVars, ctxDone, otherObs, monPc, now, pre, pendingCb, firedInRun, inflight, selVars, foVars>>

\* The verdict of the last probe alone.
AllHealthyLastWins(allHealthy, success) == success

\* allHealthy after one more probe result.
AllHealthyAfter(allHealthy, success) == IF ~success THEN FALSE ELSE allHealthy

\* checkContainer: one iteration of the loop over container.HealthChecks.
CheckProbe(c) ==
    /\ chk[c].pc = "probe"
    /\ Len(chk[c].results) < NumHealthChecks(c)
    /\ \E success \in BOOLEAN :
          chk' = [chk EXCEPT ![c].results = Append(@, success),
                             ![c].allHealthy = AllHealthyAfter(@, success)]
    /\ UNCHANGED <<cfgVars, ctxDone, obsVars, monPc, now, states, pre, pendingCb, firedInRun,
                   inflight, selVars, foVars>>

\* checkContainer: after the loop, LastHealthCheck and HealthResults are stored.
CheckStore(c) ==
    /\ chk[c].pc = "probe"
    /\ Len(chk[c].results) >= NumHealthChecks(c)
    /\ states' = [states EXCEPT ![c].LastHealthCheck = now,
                                ![c].HealthResults = chk[c].results]
    /\ chk' = [chk EXCEPT ![c].pc = "record"]
    /\ UNCHANGED <<cfgVars, ctxDone, obsVars, monPc, now, pre, pendingCb, firedInRun, inflight, selVars, foVars>>

\* checkContainer: the verdict of the cycle.
CheckRecord(c) ==
    /\ chk[c].pc = "record"
    /\ chk' = [chk EXCEPT ![c].pc = "done"]
    /\ IF chk[c].allHealthy THEN RecordSuccess(c) ELSE RecordFailure(c)
    /\ GoroutineReturns(c)
    /\ UNCHANGED <<cfgVars, ctxDone, otherObs, monPc, now, pre, inflight, selVars, foVars>>

(***************************************************************************)
(* Engine: the entry points of a recovery                                  *)
(***************************************************************************)
\* performFailover is entered for container c.
PerformFailoverBegin(c) ==
    inflight' = [inflight EXCEPT ![c] = @ + 1]

\* The outcomes (ok or not) selectBestNode can have for c, over the answers of
\* GetContainer (the current node) and GetNodes.
SelectOutcomes ==
    [c \in Containers |->
        {SelectBestNode(FailoverNodes(c), node, nodes).ok :
            node \in Nodes, nodes \in NodeSnapshots}]

\* Engine.HandleContainerFailure up to the call of performFailover, by the way
\* it ends: "skipped" (auto-failover disabled, nil), "failed" (GetContainer or
\* selectBestNode returned an error) or "started" (performFailover is entered).
\* Between selectBestNode and performFailover nothing looks at the recoveries
\* in progress.
HandleContainerFailureEnds(c, out) ==
    /\ pendingCb[c] > 0
    /\ pendingCb' = [pendingCb EXCEPT ![c] = @ - 1]
    /\ \/ /\ out = "skipped"
          /\ ~autoFailover                      \* auto-failover disabled, skipping
          /\ UNCHANGED inflight
       \/ /\ out = "failed"
          /\ autoFailover                       \* GetContainer fails
          /\ UNCHANGED inflight
       \/ /\ out = "failed"
          /\ autoFailover                       \* selectBestNode fails
          /\ FALSE \in SelectOutcomes[c]
          /\ UNCHANGED inflight
       \/ /\ out = "started"
          /\ autoFailover                       \* performFailover
          /\ TRUE \in SelectOutcomes[c]
          /\ PerformFailoverBegin(c)
    /\ UNCHANGED <<cfgVars, ctxDone, monPc, now, states, chk, pre, firedInRun, selVars, foVars>>

CallbackOutcomes == {"skipped", "failed", "started"}

\* The failure callback registered by daemon.New, run in its own goroutine.
HandleContainerFailure(c) ==
    /\ \E out \in CallbackOutcomes : HandleContainerFailureEnds(c, out)
    /\ UNCHANGED obsVars

\* A recovery that, when it succeeds, sets the failure count of its container
\* back to zero.
PerformFailoverEndsResets(c, success) ==
    /\ inflight[c] > 0
    /\ inflight' = [inflight EXCEPT ![c] = @ - 1]
    /\ states' = [states EXCEPT ![c].FailureCount = IF success THEN 0 ELSE @]
    /\ UNCHANGED <<cfgVars, ctxDone, monPc, now, chk, pre, pendingCb, firedInRun,
                   selVars, foVars>>

\* performFailover returns its FailoverResult, with Success or without.
PerformFailoverEnds(c, success) ==
    /\ inflight[c] > 0
    /\ inflight' = [inflight EXCEPT ![c] = @ - 1]
    /\ UNCHANGED <<cfgVars, ctxDone, monVars, selVars, foVars>>

PerformFailoverEnd(c) ==
    /\ \E success \in BOOLEAN : PerformFailoverEnds(c, success)
    /\ UNCHANGED obsVars

\* A recovery returns and is counted by its outcome.
RecoveryReturns(c) ==
    /\ \E success \in BOOLEAN :
          /\ PerformFailoverEnds(c, success)
          /\ ended' = IF success THEN [ended EXCEPT !.ok = @ + 1]
                                  ELSE [ended EXCEPT !.failed = @ + 1]
    /\ UNCHANGED <<held, failedAt, probeVars, findVars, running>>

\* The tick during which a recovery first failed.
FirstFailure(failed) == IF failed /\ failedAt = 0 THEN now ELSE failedAt

\* A callback that ends the process when HandleContainerFailure returns an error.
FailureCallbackFatal(c) ==
    /\ \E out \in CallbackOutcomes :
          /\ pendingCb[c] > 0
          /\ autoFailover
          /\ out = "failed"
          /\ pendingCb' = [pendingCb EXCEPT ![c] = @ - 1]
          /\ monPc' = "returned"
          /\ failedAt' = FirstFailure(TRUE)
    /\ UNCHANGED <<cfgVars, ctxDone, now, states, chk, pre, firedInRun, inflight,
                   selVars, foVars, held, probeVars, findVars, running, ended>>

\* daemon.New's callback: it calls HandleContainerFailure and logs the error it
\* returns; the tick of the first failed recovery is noted.
FailureCallback(c) ==
    /\ \E out \in CallbackOutcomes :
          /\ HandleContainerFailureEnds(c, out)
          /\ failedAt' = FirstFailure(out = "failed")
    /\ UNCHANGED <<held, probeVars, findVars, running, ended>>

\* performFailover returns to HandleContainerFailure, which returns result.Error
\* to the callback when Success is false.
RecoveryEnds(c) ==
    /\ \E success \in BOOLEAN :
          /\ PerformFailoverEnds(c, success)
          /\ failedAt' = FirstFailure(~success)
    /\ UNCHANGED <<held, probeVars, findVars, running, ended>>

(***************************************************************************)
(* Engine: one recovery, step by step                                      *)
(***************************************************************************)
\* Lengths of the hook lists a configuration is tried with: none, or two hooks.
HookCounts == {0, 2}

\* config.Failover as Load leaves it when the file says nothing about it.
DefaultFailover ==
    [maxRetries |-> 3, backupBeforeFailover |-> TRUE, preHooks |-> 0, postHooks |-> 0]

\* The zero time.Time.
NoTime == [wall |-> 0, mono |-> 0]

\* FailoverResult: Error is the chain of wrapped errors, <<>> for nil.
NewResult ==
    [Success |-> FALSE, Error |-> <<>>, StartTime |-> NoTime, EndTime |-> NoTime,
     Duration |-> 0]

\* No recovery asked for yet.  calls lists what the engine has run or asked of
\* the platform, in order, "!" marking a call that returned an error; the
\* outcome of the last StopContainer is in stopErr.
FoIdle ==
    [pc |-> "idle", kind |-> "", c |-> 0, source |-> "", target |-> "",
     status |-> "", force |-> FALSE, given |-> "", selCalls |-> 0, selected |-> "",
     hook |-> 0, attempt |-> 0, stopErr |-> FALSE, err |-> "", calls |-> <<>>,
     lookups |-> 0, seen |-> 0, slept |-> <<>>, sourceStopped |-> FALSE, restoreTarget |-> "", backupPath |-> 0, restoredWith |-> {}, skew |-> 0,
     result |-> NewResult, ret |-> <<>>]

\* time.Now() during the recovery f: every hook, platform call and sleep takes
\* one unit of time on the monotonic clock; the wall clock is off by f.skew.
Now(f) == [wall |-> Len(f.calls) + 1 + f.skew, mono |-> Len(f.calls) + 1]

\* A Time.Sub that subtracts the wall clock readings.
SubWall(t, u) == t.wall - u.wall

\* Time.Sub of two readings of time.Now(): the difference of the monotonic readings.
Sub(t, u) == t.mono - u.mono

\* result.EndTime = time.Now(); result.Duration = result.EndTime.Sub(result.StartTime)
Stamp(f) ==
    [f EXCEPT !.result.EndTime = Now(f),
              !.result.Duration = Sub(Now(f), f.result.StartTime)]

FoNone ==
    /\ foCfg = DefaultFailover
    /\ fo = FoIdle

\* No recovery has returned yet.
NoneEnded == [ok |-> 0, failed |-> 0]

\* No caller holds a state yet.
NoHandle == [call |-> "", found |-> FALSE, refs |-> <<>>, written |-> FALSE]

\* RunHealthCheck is not under study.
ProbeNotRun == [Success |-> FALSE, Error |-> <<"not run">>, Duration |-> 0]

ProbeIdle ==
    /\ probeIn = [parent |-> "live", type |-> "", timeout |-> 0, badURL |-> FALSE,
                  up |-> FALSE, status |-> 0, latency |-> 0]
    /\ probeOut = ProbeNotRun

\* findLatestBackup is not under study.
FindNotRun == [path |-> <<>>, err |-> <<"not run">>]

FindIdle ==
    /\ findIn = [containerID |-> 0, listErr |-> FALSE, backups |-> <<>>]
    /\ findOut = FindNotRun

ObsNone ==
    /\ held = NoHandle
    /\ failedAt = 0
    /\ ended = NoneEnded
    /\ ProbeIdle
    /\ FindIdle
    /\ running = [c \in monitored |-> 0]

\* executeHooks: the loop over the hooks goes on while there is a hook left.
AfterPreHooks(hook) == IF hook > foCfg.preHooks THEN "backup" ELSE "pre"
AfterPostHooks(hook) == IF hook > foCfg.postHooks THEN "return" ELSE "post"

\* performFailover, after the retry loop: a loop that ended on an error returns
\* at once, otherwise the post-failover hooks run.
FinishLoopAlwaysPostHooks(f) == [Stamp(f) EXCEPT !.hook = 1, !.pc = AfterPostHooks(1)]

FinishLoop(f) ==
    IF f.err # ""
    THEN [Stamp(f) EXCEPT !.result.Error = <<"backup-restore failover failed", f.err>>,
                          !.pc = "return"]
    ELSE [Stamp(f) EXCEPT !.hook = 1, !.pc = AfterPostHooks(1)]

\* The for statement of the retry loop: its condition, on entry and after attempt++.
\* A retry loop without a bound on the attempts.
EnterAttemptAgain(f, attempt) == [f EXCEPT !.attempt = attempt, !.pc = "stop"]

\* performFailover: the head of the retry loop, `attempt <= MaxRetries`.
EnterAttempt(f, attempt) ==
    IF attempt <= foCfg.maxRetries
    THEN [f EXCEPT !.attempt = attempt, !.pc = "stop"]
    ELSE FinishLoop([f EXCEPT !.attempt = attempt])

\* A retry loop that sleeps after every failed attempt.
SleepsAfterEveryFailure(attempt) == TRUE

\* performFailover: whether time.Sleep(RetryDelay) follows a failed attempt.
SleepsAfter(attempt) == attempt < foCfg.maxRetries

\* failover.retry_delay, in seconds (the default of config.Load).
RetryDelay == 5

\* performFailover: the argument of time.Sleep after the failed attempt.
SleepFor(attempt) == RetryDelay

\* performFailover: performBackupRestoreFailover returned the error e.
AttemptFailed(f, op, e) ==
    EnterAttempt([f EXCEPT !.err = e,
                           !.calls = f.calls \o <<op>>
                                     \o (IF SleepsAfter(f.attempt) THEN <<"sleep">> ELSE <<>>),
                           !.slept = f.slept
                                     \o (IF SleepsAfter(f.attempt)
                                         THEN <<SleepFor(f.attempt)>> ELSE <<>>)],
                 f.attempt + 1)

\* What an entry point knows when it calls performFailover or returns before
\* it: the status GetContainer reported, the force flag and target node it was
\* given, how often it consulted selectBestNode and what that answered, and
\* how many queries it made of the platform (GetContainer, and the GetNodes of
\* selectBestNode).
Request(kind, status, force, given, selCalls, selected) ==
    [kind |-> kind, status |-> status, force |-> force, given |-> given,
     selCalls |-> selCalls, selected |-> selected, lookups |-> 1 + selCalls]

\* The entry point returns before it has asked the platform anything.
Unasked(req) == [req EXCEPT !.lookups = 0]

Asked(req, c) ==
    [FoIdle EXCEPT !.kind = req.kind, !.c = c, !.status = req.status,
                   !.force = req.force, !.given = req.given,
                   !.selCalls = req.selCalls, !.selected = req.selected,
                   !.lookups = req.lookups, !.seen = fo.seen]

\* performFailover is called: the result is created with StartTime = time.Now()
\* and the pre-failover hooks begin.
PerformFailover(req, c, sourceNode, targetNode) ==
    fo' = [Asked(req, c) EXCEPT !.source = sourceNode, !.target = targetNode,
                                !.result.StartTime = Now(FoIdle),
                                !.hook = 1, !.pc = AfterPreHooks(1)]

\* An entry point returns e before performFailover is reached.
ReturnEarly(req, c, e) ==
    fo' = [Asked(req, c) EXCEPT !.ret = e, !.pc = "done"]

\* The nodes GetContainer is tried with as the current node of the container,
\* and the target nodes TriggerFailover is tried with ("" for none given).
SourceNodes == {"node1", "node2"}
GivenTargets == {"", "node1", "node3"}

\* A TriggerFailover that asks selectBestNode whatever target it was given.
NeedsSelectorAlways(targetNode) == TRUE

\* TriggerFailover: selectBestNode is asked only when no target node was given.
NeedsSelector(targetNode) == targetNode = ""

\* A TriggerFailover that never looks at the status.
RejectsRunningNever(force, status) == FALSE

\* TriggerFailover: a running container is only failed over with the force flag.
RejectsRunning(force, status) == ~force /\ status = "running"

\* Engine.TriggerFailover up to the call of performFailover.
TriggerFailoverCall(c, targetNode, force) ==
    /\ fo.pc = "idle"
    /\ \/ /\ c \notin monitored
          /\ ReturnEarly(Unasked(Request("manual", "", force, targetNode, 0, "")), c,
                         <<"container not found in configuration">>)
       \/ /\ c \in monitored
          /\ ReturnEarly(Request("manual", "", force, targetNode, 0, ""), c,
                         <<"failed to get container info">>)
       \/ /\ c \in monitored
          /\ \E node \in SourceNodes, status \in {"running", "stopped"} :
                IF RejectsRunning(force, status)
                THEN ReturnEarly(Request("manual", status, force, targetNode, 0, ""), c,
                                 <<"container is running and force flag not set">>)
                ELSE IF ~NeedsSelector(targetNode)
                THEN PerformFailover(Request("manual", status, force, targetNode, 0, ""),
                                     c, node, targetNode)
                ELSE \E nodes \in NodeSnapshots :
                        LET sel == SelectBestNode(FailoverNodes(c), node, nodes)
                            req == Request("manual", status, force, targetNode, 1, sel.node)
                        IN  IF sel.ok
                            THEN PerformFailover(req, c, node, sel.node)
                            ELSE ReturnEarly(req, c,
                                     <<"failed to select target node", sel.err>>)
    /\ UNCHANGED <<cfgVars, ctxDone, obsVars, monVars, inflight, selVars, foCfg>>

\* A HandleContainerFailure that recovers whatever auto_failover says.
SkipsRecoveryNever == FALSE

\* HandleContainerFailure: `if !e.config.Failover.AutoFailover`.
SkipsRecovery == ~autoFailover

\* Engine.HandleContainerFailure up to the call of performFailover.
HandleContainerFailureCall(c) ==
    /\ fo.pc = "idle"
    /\ \/ /\ SkipsRecovery
          /\ ReturnEarly(Unasked(Request("auto", "", FALSE, "", 0, "")), c, <<>>)
       \/ /\ ~SkipsRecovery
          /\ c \notin monitored
          /\ ReturnEarly(Unasked(Request("auto", "", FALSE, "", 0, "")), c,
                         <<"container not found in configuration">>)
       \/ /\ ~SkipsRecovery
          /\ c \in monitored
          /\ ReturnEarly(Request("auto", "", FALSE, "", 0, ""), c,
                         <<"failed to get container info">>)
       \/ /\ ~SkipsRecovery
          /\ c \in monitored
          /\ \E node \in SourceNodes, nodes \in NodeSnapshots :
                LET sel == SelectBestNode(FailoverNodes(c), node, nodes)
                    req == Request("auto", "", FALSE, "", 1, sel.node)
                IN  IF sel.ok
                    THEN PerformFailover(req, c, node, sel.node)
                    ELSE ReturnEarly(req, c,
                                     <<"failed to select target node", sel.err>>)
    /\ UNCHANGED <<cfgVars, ctxDone, obsVars, monVars, inflight, selVars, foCfg>>

\* A performFailover that only logs a failed pre-failover hook.
PreHookErrLogged(f) ==
    [f EXCEPT !.calls = Append(@, "pre!"), !.pc = "backup"]

\* performFailover: executeHooks(PreFailoverHooks) returned an error.
PreHookErr(f) ==
    [Stamp([f EXCEPT !.calls = Append(@, "pre!")])
        EXCEPT !.result.Error = <<"pre-failover hooks failed">>,
               !.pc = "return"]

\* executeHooks(PreFailoverHooks): the next hook runs; the first failure ends
\* the list and the recovery.
PreFailoverHook ==
    /\ fo.pc = "pre"
    /\ \/ fo' = [fo EXCEPT !.calls = Append(@, "pre"),
                           !.hook = @ + 1,
                           !.pc = AfterPreHooks(fo.hook + 1)]
       \/ fo' = PreHookErr(fo)
    /\ UNCHANGED <<cfgVars, ctxDone, obsVars, monVars, inflight, selVars, foCfg>>

\* A performFailover that goes on to the attempts without a backup reference.
BackupErrGoesOn(f, op) ==
    EnterAttempt([f EXCEPT !.calls = Append(@, IF op = "backup" THEN "backup!" ELSE "find!")], 1)

\* performFailover: BackupContainer or findLatestBackup returned an error.
BackupErr(f, op) ==
    [Stamp([f EXCEPT !.calls = Append(@, IF op = "backup" THEN "backup!" ELSE "find!")])
        EXCEPT !.result.Error = IF op = "backup" THEN <<"backup failed">>
                                ELSE <<"failed to find backup">>,
               !.pc = "return"]

\* The backup reference a successful BackupContainer or findLatestBackup hands
\* back: the n-th such call of a recovery gives reference n (a fresh backup is
\* named after the time of the call, a later listing may hold a later backup).
NewBackupPath(f) ==
    Len(SelectSeq(f.calls, LAMBDA x : x \in {"backup", "find"})) + 1

\* A retry loop that obtains the backup reference anew for every attempt.
BackupPathPerAttempt(f) == f.backupPath + f.attempt - 1

\* performFailover: the backupPath argument of performBackupRestoreFailover,
\* the local variable assigned in step 1.
BackupPathArg(f) == f.backupPath

\* performFailover, step 1: BackupContainer when backup_before_failover is set,
\* findLatestBackup otherwise; an error of either ends the recovery.
ObtainBackup ==
    /\ fo.pc = "backup"
    /\ LET op == IF foCfg.backupBeforeFailover THEN "backup" ELSE "find"
       IN  \/ fo' = EnterAttempt([fo EXCEPT !.calls = Append(@, op),
                                            !.backupPath = NewBackupPath(fo)], 1)
           \/ fo' = BackupErr(fo, op)
    /\ UNCHANGED <<cfgVars, ctxDone, obsVars, monVars, inflight, selVars, foCfg>>

\* A performBackupRestoreFailover that gives the attempt up when the stop fails.
StopDoneStrict(f, stopErr) ==
    IF stopErr
    THEN AttemptFailed([f EXCEPT !.calls = Append(@, "stop"), !.stopErr = TRUE],
                       "stop!", "failed to stop container")
    ELSE [f EXCEPT !.calls = Append(@, "stop"), !.stopErr = FALSE,
                   !.sourceStopped = TRUE, !.pc = "restore"]

\* performBackupRestoreFailover: StopContainer has returned; an error is only
\* logged and the restore comes next either way.  A stop that succeeded has
\* stopped the container on its source node, and no later call of a recovery
\* starts it there again.
StopDone(f, stopErr) ==
    [f EXCEPT !.calls = Append(@, "stop"), !.stopErr = stopErr,
              !.sourceStopped = @ \/ ~stopErr, !.pc = "restore"]

\* performBackupRestoreFailover, step 1: StopContainer.
StopContainer ==
    /\ fo.pc = "stop"
    /\ \E stopErr \in BOOLEAN : fo' = StopDone(fo, stopErr)
    /\ UNCHANGED <<cfgVars, ctxDone, obsVars, monVars, inflight, selVars, foCfg>>

\* performBackupRestoreFailover: RestoreContainerFromBackup returned an error.
RestoreErr(f) == AttemptFailed(f, "restore!", "failed to restore container")

\* performBackupRestoreFailover, step 2: RestoreContainerFromBackup on the target.
RestoreContainerFromBackup ==
    /\ fo.pc = "restore"
    /\ \/ fo' = [fo EXCEPT !.calls = Append(@, "restore"),
                           !.restoreTarget = fo.target,
                           !.restoredWith = @ \cup {BackupPathArg(fo)}, !.pc = "start"]
       \/ fo' = RestoreErr([fo EXCEPT !.restoreTarget = fo.target,
                                      !.restoredWith = @ \cup {BackupPathArg(fo)}])
    /\ UNCHANGED <<cfgVars, ctxDone, obsVars, monVars, inflight, selVars, foCfg>>

\* performBackupRestoreFailover, step 3: StartContainer.  A nil error makes
\* performFailover set Success and leave the loop.
StartContainer ==
    /\ fo.pc = "start"
    /\ \/ fo' = FinishLoop([fo EXCEPT !.calls = Append(@, "start"), !.err = "",
                                      !.result.Success = TRUE])
       \/ fo' = AttemptFailed(fo, "start!", "failed to start restored container")
    /\ UNCHANGED <<cfgVars, ctxDone, obsVars, monVars, inflight, selVars, foCfg>>

\* A performFailover that reports a failed post-failover hook as a failed recovery.
PostHookErrFails(f) ==
    [f EXCEPT !.calls = Append(@, "post!"), !.result.Success = FALSE,
              !.result.Error = <<"post-failover hooks failed">>, !.pc = "return"]

\* performFailover: executeHooks(PostFailoverHooks) returned an error: a warning.
PostHookErr(f) ==
    [f EXCEPT !.calls = Append(@, "post!"), !.pc = "return"]

\* executeHooks(PostFailoverHooks): the next hook runs; the first failure ends the list.
PostFailoverHook ==
    /\ fo.pc = "post"
    /\ \/ fo' = [fo EXCEPT !.calls = Append(@, "post"),
                           !.hook = @ + 1,
                           !.pc = AfterPostHooks(fo.hook + 1)]
       \/ fo' = PostHookErr(fo)
    /\ UNCHANGED <<cfgVars, ctxDone, obsVars, monVars, inflight, selVars, foCfg>>

\* The wall clock of the host is set back while a recovery is running.
ClockStep ==
    /\ fo.pc \notin {"idle", "done"}
    /\ fo.skew = 0
    /\ fo' = [fo EXCEPT !.skew = 0 - ClockStepBack]
    /\ UNCHANGED <<cfgVars, ctxDone, obsVars, monVars, inflight, selVars, foCfg>>

\* performFailover has returned its result: TriggerFailover and
\* HandleContainerFailure return nil on Success and result.Error otherwise.
PerformFailoverReturn ==
    /\ fo.pc = "return"
    /\ fo' = [fo EXCEPT !.ret = IF fo.result.Success THEN <<>> ELSE fo.result.Error,
                        !.pc = "done"]
    /\ UNCHANGED <<cfgVars, ctxDone, obsVars, monVars, inflight, selVars, foCfg>>

(***************************************************************************)
(* Monitor.GetContainerState and Monitor.GetAllStates, and their callers   *)
(***************************************************************************)
\* A getter that hands out the pointer kept in Monitor.states.
LiveRef(c) == [live |-> TRUE, val |-> states[c]]

\* stateCopy := *state; return &stateCopy: the caller gets a struct of its own,
\* holding the field values of the moment.
CopyRef(c) == [live |-> FALSE, val |-> states[c]]

\* What a caller reads through a reference it was handed for container c.
Deref(ref, c, sts) == IF ref.live THEN sts[c] ELSE ref.val

\* Monitor.GetContainerState: (nil, false) for an id that is not tracked.
GetContainerState(c) ==
    IF c \in DOMAIN states
    THEN [NoHandle EXCEPT !.call = "GetContainerState", !.found = TRUE,
                          !.refs = [d \in {c} |-> CopyRef(d)]]
    ELSE [NoHandle EXCEPT !.call = "GetContainerState"]

\* Monitor.GetAllStates: a fresh map with a copy per tracked id.
GetAllStates ==
    [NoHandle EXCEPT !.call = "GetAllStates", !.found = TRUE,
                     !.refs = [d \in DOMAIN states |-> CopyRef(d)]]

GetContainerStateCall(c) ==
    /\ held = NoHandle
    /\ held' = GetContainerState(c)
    /\ UNCHANGED <<cfgVars, ctxDone, failedAt, probeVars, findVars, running, ended, monVars, inflight, selVars, foVars>>

GetAllStatesCall ==
    /\ held = NoHandle
    /\ held' = GetAllStates
    /\ UNCHANGED <<cfgVars, ctxDone, failedAt, probeVars, findVars, running, ended, monVars, inflight, selVars, foVars>>

\* The fields of a ContainerState a caller may overwrite, and what it writes.
CallerFields == {"FailureCount", "HealthyCount", "Node", "Status"}

CallerWrites(st, field) ==
    IF field = "FailureCount" THEN [st EXCEPT !.FailureCount = @ + 1]
    ELSE IF field = "HealthyCount" THEN [st EXCEPT !.HealthyCount = @ + 1]
    ELSE IF field = "Node" THEN [st EXCEPT !.Node = "changed by caller"]
    ELSE [st EXCEPT !.Status = "changed by caller"]

\* The caller assigns to a field through the pointer it was handed: the write
\* lands in the struct the pointer points to.
CallerWrite(c, field) ==
    /\ ~held.written
    /\ c \in DOMAIN held.refs
    /\ IF held.refs[c].live
       THEN /\ states' = [states EXCEPT ![c] = CallerWrites(@, field)]
            /\ held' = [held EXCEPT !.written = TRUE]
       ELSE /\ states' = states
            /\ held' = [held EXCEPT !.written = TRUE,
                                    !.refs[c].val = CallerWrites(@, field)]
    /\ UNCHANGED <<cfgVars, ctxDone, failedAt, probeVars, findVars, running, ended, monPc, now, chk, pre, pendingCb,
                   firedInRun, inflight, selVars, foVars>>

(***************************************************************************)
(* The daemon: monitor, callbacks and recoveries                           *)
(***************************************************************************)
NotCalled == [ok |-> FALSE, node |-> "", err |-> "not called"]

SelIdle ==
    /\ selIn = [failoverNodes |-> <<>>, currentNode |-> "", nodes |-> [err |-> TRUE, status |-> <<>>]]
    /\ selOut = NotCalled

\* monitor.New and failover.NewWithConfig: no state, no goroutine, nothing in flight.
MonInit ==
    /\ ctxDone = FALSE
    /\ monPc = "new"
    /\ now = 0
    /\ states = <<>>
    /\ chk = [c \in monitored |-> IdleChk]
    /\ pre = <<>>
    /\ pendingCb = [c \in monitored |-> 0]
    /\ firedInRun = [c \in monitored |-> 0]
    /\ inflight = [c \in monitored |-> 0]

\* The daemon watching one container.
Init ==
    /\ monitored = {100}
    /\ autoFailover \in BOOLEAN
    /\ horizon = MaxTicks
    /\ MonInit
    /\ SelIdle
    /\ FoNone
    /\ ObsNone

Next ==
    \/ StartInit
    \/ TickStart
    \/ TickJoin
    \/ \E c \in monitored : CheckFetchErr(c)
    \/ \E c \in monitored : CheckFetchOk(c)
    \/ \E c \in monitored : CheckProbe(c)
    \/ \E c \in monitored : CheckStore(c)
    \/ \E c \in monitored : CheckRecord(c)
    \/ \E c \in monitored : HandleContainerFailure(c)
    \/ \E c \in monitored : PerformFailoverEnd(c)

Spec == Init /\ [][Next]_vars

(***************************************************************************)
(* The selector on its own: inputs drawn at the start, one call            *)
(***************************************************************************)
RECURSIVE SeqsUpTo(_, _)
SeqsUpTo(S, n) ==
    IF n = 0 THEN {<<>>}
    ELSE LET shorter == SeqsUpTo(S, n - 1)
         IN  shorter \cup {Append(s, x) : s \in shorter, x \in S}

SelInit ==
    /\ monitored = {100}
    /\ autoFailover = TRUE
    /\ horizon = 0
    /\ MonInit
    /\ selIn \in [failoverNodes : SeqsUpTo(Nodes, MaxCand), currentNode : Nodes,
                  nodes : NodeSnapshots]
    /\ selOut = NotCalled
    /\ FoNone
    /\ ObsNone

SelCall ==
    /\ selOut = NotCalled
    /\ selOut' = SelectBestNode(selIn.failoverNodes, selIn.currentNode, selIn.nodes)
    /\ UNCHANGED <<cfgVars, ctxDone, obsVars, monVars, inflight, selIn, foVars>>

SelNext == SelCall

SelSpec == SelInit /\ [][SelNext]_vars

(***************************************************************************)
(* One recovery on its own: configuration drawn at the start               *)
(***************************************************************************)
FoInit ==
    /\ monitored = {100}
    /\ horizon = 0
    /\ MonInit
    /\ SelIdle
    /\ \/ /\ autoFailover = TRUE
          /\ foCfg \in [maxRetries : 0..MaxRetriesTried, backupBeforeFailover : BOOLEAN,
                        preHooks : HookCounts, postHooks : HookCounts]
       \/ /\ autoFailover = FALSE
          /\ foCfg = DefaultFailover
    /\ fo = FoIdle
    /\ ObsNone

FoNext ==
    \/ \E c \in Containers, targetNode \in GivenTargets, force \in BOOLEAN :
          TriggerFailoverCall(c, targetNode, force)
    \/ \E c \in Containers : HandleContainerFailureCall(c)
    \/ PreFailoverHook
    \/ ObtainBackup
    \/ StopContainer
    \/ RestoreContainerFromBackup
    \/ StartContainer
    \/ PostFailoverHook
    \/ PerformFailoverReturn

FoSpec == FoInit /\ [][FoNext]_vars

\* Every hook and every platform call of a recovery returns, and so does
\* time.Sleep: a recovery that can take its next step takes it.  Nothing is
\* assumed about when a recovery is asked for.
FoFairness ==
    /\ WF_vars(PreFailoverHook)
    /\ WF_vars(ObtainBackup)
    /\ WF_vars(StopContainer)
    /\ WF_vars(RestoreContainerFromBackup)
    /\ WF_vars(StartContainer)
    /\ WF_vars(PostFailoverHook)
    /\ WF_vars(PerformFailoverReturn)

FoFairSpec == FoInit /\ [][FoNext]_vars /\ FoFairness

(***************************************************************************)
(* One recovery and the clocks of its host                                 *)
(***************************************************************************)
\* The values of max_retries the timed recovery is tried with.
TimedRetries == {0, 1, 2}

TimeInit ==
    /\ monitored = {100}
    /\ horizon = 0
    /\ MonInit
    /\ SelIdle
    /\ autoFailover = TRUE
    /\ foCfg \in [maxRetries : TimedRetries, backupBeforeFailover : BOOLEAN,
                  preHooks : HookCounts, postHooks : HookCounts]
    /\ fo = FoIdle
    /\ ObsNone

TimeNext ==
    \/ ClockStep
    \/ \E c \in Containers, targetNode \in GivenTargets, force \in BOOLEAN :
          TriggerFailoverCall(c, targetNode, force)
    \/ \E c \in Containers : HandleContainerFailureCall(c)
    \/ PreFailoverHook
    \/ ObtainBackup
    \/ StopContainer
    \/ RestoreContainerFromBackup
    \/ StartContainer
    \/ PostFailoverHook
    \/ PerformFailoverReturn

TimeSpec == TimeInit /\ [][TimeNext]_vars

(***************************************************************************)
(* Properties                                                              *)
(***************************************************************************)
\* How the cycle of container c ended, read off its finished goroutine.
CycleFetchFailed(c) == chk[c].pc = "done" /\ chk[c].err
CycleNotRunning(c)  == chk[c].pc = "done" /\ ~chk[c].err /\ chk[c].status # "running"
CycleProbed(c)      == chk[c].pc = "done" /\ ~chk[c].err /\ chk[c].status = "running"

\* Every probe of the cycle succeeded.
AllSucceeded(results) == \A i \in 1..Len(results) : results[i]

\* The step in which recordFailure / recordSuccess runs for c.
RecordFailureStep(c) ==
    \/ chk[c].pc = "fetch" /\ chk'[c].pc = "done" /\ chk'[c].err
    \/ chk[c].pc = "record" /\ ~chk[c].allHealthy /\ chk'[c].pc = "done"

RecordSuccessStep(c) ==
    chk[c].pc = "record" /\ chk[c].allHealthy /\ chk'[c].pc = "done"

\* C1: within a run of failed cycles (no healthy cycle in between) the failure
\* callbacks are dispatched exactly once, at the cycle where the failure count
\* reaches the threshold, and not again on later failed cycles of the run.
C1_BreachOncePerRun ==
    \A c \in DOMAIN states :
        firedInRun[c] = IF states[c].FailureCount >= FailureThreshold
                        THEN NumCallbacks ELSE 0

\* C2: at no time are two performFailover executions in progress for the same
\* container.
C2_SingleFlight ==
    \A c \in monitored : inflight[c] <= 1

\* C3: a cycle in which the platform reports a status other than "running"
\* invokes no probe and leaves the failure count, the healthy count, the
\* stored probe batch and LastHealthCheck as they were; Status and LastSeen
\* are the ones just fetched.
C3_NotRunningSkipsProbes ==
    \A c \in monitored :
        CycleNotRunning(c) =>
            /\ Len(chk[c].results) = 0
            /\ Snapshot(states[c]) = pre[c].snap
            /\ firedInRun[c] = pre[c].fired
            /\ states[c].Status = chk[c].status
            /\ states[c].LastSeen = now

C3_Witness ==
    \E c \in monitored :
        /\ CycleNotRunning(c)
        /\ states[c].Status = "stopped"
        /\ states[c].FailureCount = 2
        /\ states[c].HealthyCount = 1
        /\ Len(states[c].HealthResults) = NumHealthChecks(c)

\* C4: a cycle whose GetContainer call fails counts as failed: the failure
\* count goes up by exactly one, no probe runs, nothing else of the state is
\* touched, and callbacks are dispatched iff the new count is at or above the
\* threshold.
C4_FetchErrorFailsClosed ==
    \A c \in monitored :
        CycleFetchFailed(c) =>
            /\ states[c].FailureCount = pre[c].snap.FailureCount + 1
            /\ Len(chk[c].results) = 0
            /\ states[c].HealthyCount = pre[c].snap.HealthyCount
            /\ states[c].HealthResults = pre[c].snap.HealthResults
            /\ states[c].LastHealthCheck = pre[c].snap.LastHealthCheck
            /\ firedInRun[c] = pre[c].fired +
                  (IF states[c].FailureCount >= FailureThreshold THEN NumCallbacks ELSE 0)

C4_Witness ==
    \E c \in monitored :
        /\ CycleFetchFailed(c)
        /\ states[c].FailureCount = FailureThreshold
        /\ pre[c].fired = 0
        /\ firedInRun[c] = NumCallbacks

\* C5: a cycle of a running container is counted exactly once: the healthy
\* count goes up by one iff every probe succeeded, otherwise the failure
\* count goes up by one; the verdict is taken only when every configured
\* probe has run, and the stored batch holds one result per configured probe.
C5_CycleCountedOnce ==
    \A c \in monitored :
        /\ (chk[c].pc \in {"record", "done"} /\ chk[c].status = "running") =>
              /\ Len(chk[c].results) = NumHealthChecks(c)
              /\ states[c].HealthResults = chk[c].results
        /\ CycleProbed(c) =>
              /\ (states[c].HealthyCount = pre[c].snap.HealthyCount + 1)
                    <=> AllSucceeded(chk[c].results)
              /\ (states[c].FailureCount = pre[c].snap.FailureCount + 1)
                    <=> ~AllSucceeded(chk[c].results)
              /\ states[c].HealthyCount \in
                    {pre[c].snap.HealthyCount, pre[c].snap.HealthyCount + 1}
              /\ states[c].FailureCount \in {0, pre[c].snap.FailureCount + 1}

C5_Witness ==
    \E c \in monitored :
        /\ CycleProbed(c)
        /\ NumHealthChecks(c) = 2
        /\ chk[c].results = <<FALSE, TRUE>>
        /\ states[c].FailureCount = pre[c].snap.FailureCount + 1

C7_RecordFailureDispatch ==
    [][\A c \in monitored :
          /\ RecordFailureStep(c) =>
                /\ states'[c].FailureCount = states[c].FailureCount + 1
                /\ pendingCb'[c] = pendingCb[c] +
                      (IF states'[c].FailureCount >= FailureThreshold
                       THEN NumCallbacks ELSE 0)
          /\ pendingCb'[c] > pendingCb[c] =>
                /\ RecordFailureStep(c)
                /\ states'[c].FailureCount >= FailureThreshold]_vars

C7_Witness ==
    \E c \in monitored :
        /\ chk[c].pc = "done"
        /\ states[c].FailureCount = FailureThreshold + 1
        /\ pre[c].snap.FailureCount = FailureThreshold
        /\ firedInRun[c] = pre[c].fired + NumCallbacks

\* C8: recordSuccess adds exactly one to the healthy count and leaves the
\* failure count at zero; no step ever lowers the healthy count.
C8_HealthyCountCumulative ==
    [][\A c \in monitored :
          c \in DOMAIN states =>
              /\ states'[c].HealthyCount >= states[c].HealthyCount
              /\ RecordSuccessStep(c) =>
                    /\ states'[c].HealthyCount = states[c].HealthyCount + 1
                    /\ states'[c].FailureCount = 0]_vars

C8_Witness ==
    \E c \in DOMAIN states :
        /\ states[c].HealthyCount >= 2
        /\ states[c].FailureCount >= 2

\* selectBestNode has been called on selIn.
SelCalled == selOut # NotCalled

\* The candidates other than the current node that the snapshot lists as online.
LiveCandidates ==
    IF selIn.nodes.err THEN {}
    ELSE ({selIn.failoverNodes[i] : i \in 1..Len(selIn.failoverNodes)}
             \cap {n \in DOMAIN selIn.nodes.status : selIn.nodes.status[n]})
            \ {selIn.currentNode}

\* C9: selectBestNode never returns the container's current node.
C9_NeverCurrentNode ==
    selOut.ok => selOut.node # selIn.currentNode

C9_Witness ==
    /\ selOut.ok
    /\ Len(selIn.failoverNodes) >= 2
    /\ selIn.failoverNodes[1] = selIn.currentNode
    /\ selIn.currentNode \in DOMAIN selIn.nodes.status
    /\ selIn.nodes.status[selIn.currentNode]

\* C10: when some candidate other than the current node is online in the
\* snapshot, selectBestNode returns an online node, whatever the priorities.
C10_LiveOverDead ==
    (SelCalled /\ LiveCandidates # {}) =>
        /\ selOut.ok
        /\ selOut.node \in DOMAIN selIn.nodes.status
        /\ selIn.nodes.status[selOut.node]

C10_Witness ==
    /\ selIn.failoverNodes = <<"node2", "node3">>
    /\ selIn.currentNode = "node1"
    /\ ~selIn.nodes.err
    /\ DOMAIN selIn.nodes.status = Nodes
    /\ ~selIn.nodes.status["node2"]
    /\ selIn.nodes.status["node3"]
    /\ selOut = SelOk("node3")

\* The positions of the configured list that hold a live candidate other than
\* the current node.
LivePositions ==
    {i \in 1..Len(selIn.failoverNodes) : selIn.failoverNodes[i] \in LiveCandidates}

\* The candidates selectBestNode sorts.
SelCandidates ==
    IF selIn.nodes.err THEN <<>>
    ELSE Candidates(selIn.failoverNodes, selIn.currentNode, selIn.nodes.status, 1)

\* C11: among the live candidates other than the current node the selector
\* returns the one configured earliest; and the comparator orders any two
\* distinct candidates one way and one way only, so the (unstable) sort has a
\* single possible result for given inputs.
C11_EarliestLiveCandidate ==
    /\ (SelCalled /\ LivePositions # {}) =>
          /\ selOut.ok
          /\ \E i \in LivePositions :
                /\ selOut.node = selIn.failoverNodes[i]
                /\ \A j \in LivePositions : i <= j
    /\ \A i, j \in 1..Len(SelCandidates) :
          i # j => (CandLess(SelCandidates[i], SelCandidates[j])
                        <=> ~CandLess(SelCandidates[j], SelCandidates[i]))

C11_Witness ==
    /\ selOut.ok
    /\ Cardinality(LiveCandidates) = 2
    /\ \E i \in LivePositions :
          /\ i > 1
          /\ selOut.node = selIn.failoverNodes[i]
          /\ selIn.failoverNodes[1] \in DOMAIN selIn.nodes.status
          /\ selIn.failoverNodes[1] # selIn.currentNode

\* C12: the selector returns an error and no node when no candidate is left
\* after removing the current node or when none of the remaining ones is
\* online; a candidate missing from the snapshot counts as not online and is
\* never returned.
C12_NoEligibleTarget ==
    SelCalled =>
        /\ LiveCandidates = {} => (~selOut.ok /\ selOut.node = "" /\ selOut.err # "")
        /\ selOut.ok => selOut.node \in DOMAIN selIn.nodes.status

C12_Witness ==
    /\ selIn.failoverNodes = <<"node2">>
    /\ selIn.currentNode = "node1"
    /\ ~selIn.nodes.err
    /\ "node2" \in DOMAIN selIn.nodes.status
    /\ ~selIn.nodes.status["node2"]
    /\ selOut = SelErr("no online failover nodes available")

\* C19: a callback or recovery that is still running never holds up the tick:
\* the tick ends as soon as the checks are done and the next one starts when
\* the ticker fires, whatever callbacks are pending or recoveries in progress,
\* and a cycle that dispatched a callback is already over (recordFailure has
\* returned without waiting for it).
C19_CallbacksNeverDelayTicks ==
    /\ (monPc = "checking" /\ \A c \in monitored : chk[c].pc = "done") => ENABLED TickJoin
    /\ (monPc = "waiting" /\ now < horizon) => ENABLED TickStart
    /\ \A c \in DOMAIN pre :
          firedInRun[c] > pre[c].fired => chk[c].pc \in {"done", "idle"}

\* The fifth tick is under way while the callback of the fourth has not run yet
\* and the recovery started after the third is still in progress.
C19_Witness ==
    /\ monPc = "checking"
    /\ now = 5
    /\ \E c \in monitored :
          /\ chk[c].pc = "probe"
          /\ pendingCb[c] = 1
          /\ inflight[c] = 1

(***************************************************************************)
(* The monitor watching two containers                                     *)
(***************************************************************************)
PairInit ==
    /\ monitored = Containers
    /\ autoFailover = TRUE
    /\ horizon = MaxPairTicks
    /\ MonInit
    /\ SelIdle
    /\ FoNone
    /\ ObsNone

PairNext ==
    \/ StartInit
    \/ TickStart
    \/ TickJoin
    \/ \E c \in monitored : CheckFetchErr(c)
    \/ \E c \in monitored : CheckFetchOk(c)
    \/ \E c \in monitored : CheckProbe(c)
    \/ \E c \in monitored : CheckStore(c)
    \/ \E c \in monitored : CheckRecord(c)

PairSpec == PairInit /\ [][PairNext]_vars

\* C18: a tick ends only when the check of every monitored container started
\* in it is done, and the checks of the next tick start only when none of the
\* current tick is still running: checks of two ticks never overlap.
C18_TickJoinsAllChecks ==
    [][ /\ (monPc = "checking" /\ monPc' = "waiting") =>
              \A c \in monitored : chk[c].pc = "done"
        /\ now' # now =>
              /\ \A c \in monitored : chk[c].pc = "idle"
              /\ \A c \in monitored : chk'[c].pc = "fetch"
        /\ \A c \in monitored :
              (chk[c].pc # "idle" /\ chk'[c].pc # "idle") => now' = now ]_vars

\* One check of the tick is done, the other is still probing: the tick waits.
C18_Witness ==
    /\ monitored = Containers
    /\ monPc = "checking"
    /\ now = 2
    /\ chk[101].pc = "done"
    /\ chk[100].pc = "probe"

(***************************************************************************)
(* The monitor under cancellation                                          *)
(***************************************************************************)
\* The container the cancelled monitor watches.
CancelContainers == {100}

CancelInit ==
    /\ monitored = CancelContainers
    /\ autoFailover = TRUE
    /\ horizon = MaxTicks
    /\ MonInit
    /\ SelIdle
    /\ FoNone
    /\ ObsNone

CancelNext ==
    \/ Cancel
    \/ MonReturn
    \/ StartInit
    \/ TickStart
    \/ TickJoin
    \/ \E c \in monitored : CheckFetchErr(c)
    \/ \E c \in monitored : CheckFetchOk(c)
    \/ \E c \in monitored : CheckProbe(c)
    \/ \E c \in monitored : CheckStore(c)
    \/ \E c \in monitored : CheckRecord(c)

\* Every call a check cycle makes returns (GetContainer and the probes honour
\* their context), so a started check goes on to its end and wg.Wait returns;
\* select takes a ready case at random, so the Done case is taken in the end
\* however often the ticker is ready too.
CancelFairness ==
    /\ WF_vars(StartInit)
    /\ WF_vars(TickJoin)
    /\ \A c \in CancelContainers :
          /\ WF_vars(CheckFetchErr(c) \/ CheckFetchOk(c))
          /\ WF_vars(CheckProbe(c))
          /\ WF_vars(CheckStore(c))
          /\ WF_vars(CheckRecord(c))
    /\ SF_vars(MonReturn)

CancelSpec == CancelInit /\ [][CancelNext]_vars /\ CancelFairness

\* C20: once the context is cancelled Monitor.Start returns in the end (with
\* ctx.Err(), its only return), and after it has returned no tick starts and
\* no check runs.
C20_CancelStopsMonitor ==
    /\ ctxDone ~> (monPc = "returned")
    /\ [][monPc = "returned" =>
              (monPc' = "returned" /\ now' = now /\ chk' = chk /\ states' = states)]_vars

\* Cancelled in the middle of the third tick, returned with ticks to spare.
C20_Witness ==
    /\ ctxDone
    /\ monPc = "returned"
    /\ now = 3
    /\ now < horizon
    /\ \A c \in monitored : chk[c].pc = "idle"

(***************************************************************************)
(* The daemon whose recoveries fail                                        *)
(***************************************************************************)
\* The container the daemon of this section watches.
FailContainers == {100}

FailInit ==
    /\ monitored = FailContainers
    /\ autoFailover = TRUE
    /\ horizon = MaxTicks - 1
    /\ MonInit
    /\ SelIdle
    /\ FoNone
    /\ ObsNone

FailNext ==
    \/ StartInit
    \/ TickStart
    \/ TickJoin
    \/ \E c \in monitored : CheckFetchErr(c)
    \/ \E c \in monitored : CheckFetchOk(c)
    \/ \E c \in monitored : CheckProbe(c)
    \/ \E c \in monitored : CheckStore(c)
    \/ \E c \in monitored : CheckRecord(c)
    \/ \E c \in monitored : FailureCallback(c)
    \/ \E c \in monitored : RecoveryEnds(c)

\* The ticker keeps firing and every call of a check cycle returns; nothing is
\* assumed about the callbacks and recoveries, which may hang for ever.
FailFairness ==
    /\ WF_vars(StartInit)
    /\ WF_vars(TickStart)
    /\ WF_vars(TickJoin)
    /\ \A c \in FailContainers :
          /\ WF_vars(CheckFetchErr(c) \/ CheckFetchOk(c))
          /\ WF_vars(CheckProbe(c))
          /\ WF_vars(CheckStore(c))
          /\ WF_vars(CheckRecord(c))

FailSpec == FailInit /\ [][FailNext]_vars /\ FailFairness

\* C23: a failed recovery never stops the scheduler: the step in which it
\* fails leaves the monitor as it was, the monitor is still in its loop
\* afterwards, and every later tick is started and all its checks are run.
C23_FailedRecoveryKeepsMonitoring ==
    /\ [](failedAt > 0 => monPc \in {"waiting", "checking"})
    /\ [][failedAt' # failedAt => UNCHANGED <<monPc, now, chk, states>>]_vars
    /\ \A t \in 1..MaxTicks :
          (failedAt = t) ~> (now = horizon /\ monPc = "waiting")

\* The recovery failed during the third tick; the fourth tick has checked the
\* container again.
C23_Witness ==
    /\ failedAt = 3
    /\ now = 4
    /\ monPc = "checking"
    /\ \A c \in monitored : chk[c].pc = "done" /\ states[c].LastHealthCheck = 4

(***************************************************************************)
(* The monitor and a caller of its getters                                 *)
(***************************************************************************)
\* Ticks the monitor is followed for while a caller holds a state.
CopyConfigs ==
    {[monitored |-> {100}, horizon |-> MaxCopyTicks],
     [monitored |-> Containers, horizon |-> 1]}

CopyInit ==
    /\ \E cfg \in CopyConfigs : monitored = cfg.monitored /\ horizon = cfg.horizon
    /\ autoFailover = TRUE
    /\ MonInit
    /\ SelIdle
    /\ FoNone
    /\ ObsNone

CopyNext ==
    \/ \E c \in Containers : GetContainerStateCall(c)
    \/ GetAllStatesCall
    \/ \E c \in Containers, field \in CallerFields : CallerWrite(c, field)
    \/ StartInit
    \/ TickStart
    \/ TickJoin
    \/ \E c \in monitored : CheckFetchErr(c)
    \/ \E c \in monitored : CheckFetchOk(c)
    \/ \E c \in monitored : CheckProbe(c)
    \/ \E c \in monitored : CheckStore(c)
    \/ \E c \in monitored : CheckRecord(c)

CopySpec == CopyInit /\ [][CopyNext]_vars

\* C21: the getters hand out copies: what a caller writes to a counter, host
\* or status of a returned state never reaches Monitor.states, what the monitor
\* writes later never shows in a returned state, and GetAllStates has exactly
\* one entry, equal to the tracked state of the moment, per tracked id.
C21_GettersReturnCopies ==
    [][ /\ (~held.written /\ held'.written) => states' = states
        /\ held' = held =>
              \A c \in DOMAIN held.refs :
                  Deref(held.refs[c], c, states') = Deref(held.refs[c], c, states)
        /\ (held = NoHandle /\ held'.call = "GetAllStates") =>
              /\ DOMAIN held'.refs = DOMAIN states
              /\ \A c \in DOMAIN states : Deref(held'.refs[c], c, states) = states[c]
        /\ (held = NoHandle /\ held'.call = "GetContainerState") =>
              /\ held'.found <=> DOMAIN held'.refs # {}
              /\ \A c \in DOMAIN held'.refs :
                    c \in DOMAIN states /\ Deref(held'.refs[c], c, states) = states[c]
      ]_vars

\* A caller got both states from GetAllStates during the tick, raised the
\* failure count of its copy of 101, and the monitor has since counted a
\* failure of its own for 100.
C21_Witness ==
    /\ held.call = "GetAllStates"
    /\ held.written
    /\ DOMAIN held.refs = Containers
    /\ DOMAIN states = Containers
    /\ held.refs[101].val.FailureCount = 1
    /\ states[101].FailureCount = 0
    /\ held.refs[100].val.FailureCount = 0
    /\ states[100].FailureCount = 1

(***************************************************************************)
(* Properties of one recovery (FoSpec)                                     *)
(***************************************************************************)
\* How many times op is in the list of calls of the recovery.
Occurrences(op) == Len(SelectSeq(fo.calls, LAMBDA x : x = op))

Attempts == Occurrences("stop")
FailedAttempts == Occurrences("restore!") + Occurrences("start!")
Sleeps == Occurrences("sleep")

\* performFailover has left the retry loop, or returned before it.
LoopOver == fo.pc \in {"post", "return", "done"}

\* C13: when k attempts fail and attempt k+1 <= max_retries succeeds, the outcome
\* is successful and the retry delay is slept exactly k times, each time between
\* a failed attempt and the next attempt; no sleep follows the last attempt,
\* whether it succeeded or was the final failure.
C13_SleepBetweenAttempts ==
    /\ Occurrences("start") > 0 =>
          /\ fo.result.Success
          /\ Attempts = FailedAttempts + 1
          /\ Attempts <= foCfg.maxRetries
          /\ Sleeps = FailedAttempts
    /\ (LoopOver /\ Attempts > 0) => Sleeps = Attempts - 1
    /\ \A i \in DOMAIN fo.calls :
          fo.calls[i] = "sleep" =>
              /\ i > 1
              /\ fo.calls[i - 1] \in {"restore!", "start!"}
              /\ IF i < Len(fo.calls) THEN fo.calls[i + 1] = "stop"
                 ELSE fo.pc = "stop"
    /\ \A i \in DOMAIN fo.calls :
          (fo.calls[i] = "stop" /\ \E j \in 1..(i - 1) : fo.calls[j] = "stop")
              => fo.calls[i - 1] = "sleep"

C13_Witness ==
    /\ fo.pc = "done"
    /\ foCfg.maxRetries = 3
    /\ fo.result.Success
    /\ Attempts = 3
    /\ FailedAttempts = 2
    /\ Sleeps = 2
    /\ fo.calls[Len(fo.calls)] # "sleep"

\* C14: when a pre-failover hook fails, the recovery returns a failed outcome
\* (and its entry point, manual or automatic, the error) having made no backup,
\* lookup, stop, restore or start call and run no post-hook.
C14_PreHookFailureAborts ==
    Occurrences("pre!") > 0 =>
        /\ \A i \in DOMAIN fo.calls : fo.calls[i] \in {"pre", "pre!"}
        /\ fo.calls[Len(fo.calls)] = "pre!"
        /\ Occurrences("pre!") = 1
        /\ fo.pc \in {"return", "done"}
        /\ ~fo.result.Success
        /\ fo.result.Error # <<>>
        /\ fo.pc = "done" => fo.ret = fo.result.Error

C14_Witness ==
    /\ fo.pc = "done"
    /\ fo.kind = "auto"
    /\ fo.calls = <<"pre", "pre!">>
    /\ fo.ret = <<"pre-failover hooks failed">>

\* C15: when the retry loop made its attempts and every one failed, the outcome
\* has success = false and carries the error of the last attempt, and no
\* post-failover hook runs.
C15_AllAttemptsFail ==
    (LoopOver /\ Attempts > 0 /\ FailedAttempts = Attempts) =>
        /\ ~fo.result.Success
        /\ fo.pc \in {"return", "done"}
        /\ Len(fo.result.Error) = 2
        /\ fo.result.Error[2] =
              (IF \E i \in DOMAIN fo.calls :
                     /\ fo.calls[i] = "start!"
                     /\ \A j \in DOMAIN fo.calls :
                           fo.calls[j] \in {"restore!", "start!"} => j <= i
               THEN "failed to start restored container"
               ELSE "failed to restore container")
        /\ Occurrences("post") + Occurrences("post!") = 0
        /\ fo.pc = "done" => fo.ret = fo.result.Error

C15_Witness ==
    /\ fo.pc = "done"
    /\ foCfg.maxRetries = 3
    /\ foCfg.postHooks > 0
    /\ Attempts = 3
    /\ FailedAttempts = 3
    /\ fo.calls[Len(fo.calls)] = "restore!"
    /\ Occurrences("start!") > 0
    /\ fo.ret = <<"backup-restore failover failed", "failed to restore container">>

\* C16: once an attempt has succeeded the outcome has success = true and no
\* error, also when a post-failover hook fails, and the entry point returns nil.
C16_PostHookFailureTolerated ==
    Occurrences("start") > 0 =>
        /\ fo.result.Success
        /\ fo.result.Error = <<>>
        /\ fo.pc = "done" => fo.ret = <<>>

C16_Witness ==
    /\ fo.pc = "done"
    /\ Occurrences("post!") = 1
    /\ fo.result.Success
    /\ fo.ret = <<>>

\* The part of the recovery a call belongs to: pre-hooks, backup reference,
\* attempts, post-hooks.
Phase(op) ==
    IF op \in {"pre", "pre!"} THEN 1
    ELSE IF op \in {"backup", "backup!", "find", "find!"} THEN 2
    ELSE IF op \in {"stop", "restore", "restore!", "start", "start!", "sleep"} THEN 3
    ELSE 4

\* The order inside the attempts: a restore directly follows the stop of its
\* attempt, a start directly follows the successful restore of its attempt.
AttemptOrder ==
    \A i \in DOMAIN fo.calls :
        /\ fo.calls[i] \in {"restore", "restore!"} => (i > 1 /\ fo.calls[i - 1] = "stop")
        /\ fo.calls[i] \in {"start", "start!"} => (i > 1 /\ fo.calls[i - 1] = "restore")
        /\ fo.calls[i] = "stop" =>
              (i > 1 /\ fo.calls[i - 1] \in {"backup", "find", "sleep"})

\* The order of the parts: all pre-hooks, then the backup reference, then the
\* attempts, then the post-hooks.
PhaseOrder ==
    /\ \A i, j \in DOMAIN fo.calls : i < j => Phase(fo.calls[i]) <= Phase(fo.calls[j])
    /\ (\E i \in DOMAIN fo.calls : Phase(fo.calls[i]) > 1) =>
          (Occurrences("pre") = foCfg.preHooks /\ Occurrences("pre!") = 0)
    /\ (\E i \in DOMAIN fo.calls : Phase(fo.calls[i]) > 2) =>
          (Occurrences("backup") + Occurrences("find") = 1)

\* C17: in every recovery the steps come in the order pre-hooks, backup
\* reference, then per attempt stop, restore, start, and the post-hooks only
\* after a successful start.
C17_StepOrder ==
    /\ PhaseOrder
    /\ AttemptOrder
    /\ (Occurrences("post") + Occurrences("post!") > 0) => Occurrences("start") = 1

\* The order of the steps when max_retries is at least 1.
C17_StepOrderWithAttempts ==
    foCfg.maxRetries >= 1 => C17_StepOrder

\* performFailover was entered and has returned its result.
Returned == fo.pc \in {"return", "done"} /\ fo.result.StartTime # NoTime

\* C22: every result performFailover returns, on each return path, has its end
\* time set and a duration that is the end time minus the start time and is
\* never negative, also when the wall clock was set back in between.
C22_DurationIsEndMinusStart ==
    Returned =>
        /\ fo.result.EndTime # NoTime
        /\ fo.result.Duration = fo.result.EndTime.mono - fo.result.StartTime.mono
        /\ fo.result.Duration >= 0

\* Retries exhausted while the wall clock was set back: the end time reads
\* earlier than the start time, the duration is still the time that passed.
C22_Witness ==
    /\ fo.pc = "done"
    /\ fo.skew < 0
    /\ Len(fo.result.Error) = 2
    /\ fo.result.EndTime.wall < fo.result.StartTime.wall
    /\ fo.result.Duration = Len(fo.calls)

\* The error TriggerFailover returns for a running container without force.
NotForced == <<"container is running and force flag not set">>

\* The recovery got past the force check of TriggerFailover: the selector was
\* asked for a target and found none, or performFailover was entered.
Proceeded ==
    \/ fo.selCalls = 1 /\ fo.pc = "done" /\ fo.result.StartTime = NoTime
                       /\ Len(fo.ret) = 2 /\ fo.ret[1] = "failed to select target node"
    \/ fo.result.StartTime # NoTime

\* C24: a manual recovery of a container the platform reports as running is
\* rejected with an error, with no hook and no backup, stop, restore or start
\* call (and no selection), unless force is set; with force set, and for a
\* container that is not running, the recovery proceeds.
C24_RunningNeedsForce ==
    (fo.kind = "manual" /\ fo.status # "") =>
        IF fo.status = "running" /\ ~fo.force
        THEN /\ fo.pc = "done"
             /\ fo.ret = NotForced
             /\ fo.calls = <<>>
             /\ fo.hook = 0
             /\ fo.selCalls = 0
             /\ fo.result = NewResult
        ELSE /\ fo.ret # NotForced
             /\ Proceeded

\* A forced recovery of a running container that restored and started it.
C24_Witness ==
    /\ fo.kind = "manual"
    /\ fo.status = "running"
    /\ fo.force
    /\ fo.pc = "done"
    /\ fo.result.Success
    /\ Occurrences("start") = 1

\* performFailover could not obtain a backup reference.
NoBackup == Occurrences("backup!") + Occurrences("find!") > 0

\* C27: when the backup cannot be created, or no existing backup is found with
\* backup_before_failover off, the recovery returns a failed result and makes no
\* stop, restore or start call and runs no post-failover hook.
C27_NoBackupAborts ==
    NoBackup =>
        /\ fo.pc \in {"return", "done"}
        /\ fo.attempt = 0
        /\ \A op \in {"stop", "stop!", "restore", "restore!", "start", "start!",
                       "sleep", "post", "post!"} : Occurrences(op) = 0
        /\ fo.calls[Len(fo.calls)] \in {"backup!", "find!"}
        /\ ~fo.result.Success
        /\ fo.result.Error = IF Occurrences("backup!") = 1
                             THEN <<"backup failed">>
                             ELSE <<"failed to find backup">>
        /\ fo.pc = "done" => fo.ret = fo.result.Error

\* No existing backup was found with backup_before_failover off, after the
\* pre-failover hooks ran; the recovery has returned.
C27_Witness ==
    /\ fo.pc = "done"
    /\ ~foCfg.backupBeforeFailover
    /\ Occurrences("find!") = 1
    /\ Occurrences("pre") = 2
    /\ Len(fo.calls) = 3

\* The errors performBackupRestoreFailover returns.
AttemptErrors == {"failed to restore container", "failed to start restored container"}

\* C28: a failed stop of the source container is tolerated.  Every stop call,
\* failed or not, is followed in the same attempt by the restore; an attempt
\* fails only with a restore or start error; and the recovery succeeds exactly
\* when a restore and the start after it succeeded, also after a failed stop.
C28_StopFailureTolerated ==
    /\ \A i \in 1..Len(fo.calls) :
          /\ fo.calls[i] = "stop" =>
                IF i = Len(fo.calls)
                THEN fo.pc = "restore" /\ fo.restoreTarget \in {"", fo.target}
                ELSE fo.calls[i + 1] \in {"restore", "restore!"}
          /\ fo.calls[i] = "start" =>
                i > 2 /\ fo.calls[i - 1] = "restore" /\ fo.calls[i - 2] = "stop"
    /\ Occurrences("stop!") = 0
    /\ fo.err # "" => fo.err \in AttemptErrors /\ FailedAttempts > 0
    /\ fo.result.Success <=> Occurrences("start") = 1
    /\ (fo.pc = "start" /\ fo.stopErr) => ENABLED (StartContainer /\ fo'.result.Success)

\* The stop of the first attempt failed; the restore and the start after it
\* succeeded and the recovery has returned success.
C28_Witness ==
    /\ fo.pc = "done"
    /\ fo.stopErr
    /\ fo.attempt = 1
    /\ fo.result.Success
    /\ fo.ret = <<>>
    /\ Occurrences("stop") = 1
    /\ Occurrences("restore") = 1

\* C30: selectBestNode is consulted at most once per recovery, and exactly when
\* no target node was supplied.  An automatic recovery always consults it and
\* uses the node it answered; a manual recovery given a target node does not
\* consult it and restores onto the given node.
C30_SelectorOnlyWithoutTarget ==
    /\ fo.selCalls \in {0, 1}
    /\ fo.kind = "auto" => fo.given = ""
    /\ fo.result.StartTime # NoTime =>
          /\ fo.selCalls = (IF fo.given = "" THEN 1 ELSE 0)
          /\ fo.target = (IF fo.given = "" THEN fo.selected ELSE fo.given)
          /\ fo.target # ""
    /\ fo.selCalls = 1 => fo.given = ""
    /\ fo.restoreTarget \in {"", fo.target}
    /\ Occurrences("restore") + Occurrences("restore!") > 0 => fo.restoreTarget = fo.target

\* A manual recovery given node3 has restored onto node3 without a selection.
C30_Witness ==
    /\ fo.kind = "manual"
    /\ fo.given = "node3"
    /\ fo.selCalls = 0
    /\ fo.restoreTarget = "node3"
    /\ Occurrences("restore") = 1

\* An automatic recovery has restored onto the node the selector answered.
C30_WitnessAuto ==
    /\ fo.kind = "auto"
    /\ fo.selCalls = 1
    /\ fo.selected # ""
    /\ fo.restoreTarget = fo.selected
    /\ Occurrences("restore") = 1

\* C25: before Start has run no state exists and GetContainerState finds none
\* for any id; Start creates exactly one state per configured id, with failure
\* count 0, success count 0 and status "unknown"; from then on the set of
\* tracked ids stays the set of configured ids.
C25_StatesCreatedAtStart ==
    /\ [](IF monPc = "new"
          THEN /\ DOMAIN states = {}
               /\ \A c \in Containers : ~GetContainerState(c).found
          ELSE /\ DOMAIN states = monitored
               /\ \A c \in Containers : GetContainerState(c).found <=> c \in monitored
               /\ \A c \in monitored : states[c].ID = c)
    /\ [][(monPc = "new" /\ monPc' # "new") =>
              \A c \in monitored : /\ states'[c].FailureCount = 0
                                   /\ states'[c].HealthyCount = 0
                                   /\ states'[c].Status = "unknown"
                                   /\ states'[c].HealthResults = <<>>]_vars
    /\ [][monPc # "new" => DOMAIN states' = DOMAIN states /\ monPc' # "new"]_vars

\* A lookup before Start found nothing; Start then created a state for each of
\* the two configured containers, and a check has since counted a failure.
C25_Witness ==
    /\ monitored = Containers
    /\ held.call = "GetContainerState"
    /\ ~held.found
    /\ DOMAIN states = Containers
    /\ \E c \in monitored : states[c].FailureCount = 1

\* ---------------------------------------------------------------------------
\* Health checker: one call of RunHealthCheck
\* ---------------------------------------------------------------------------

\* The longest configured timeout and the slowest answer of a target, in units
\* of time.
MaxProbeTime == 2

\* The check types tried: the five RunHealthCheck knows and one it does not.
ProbeTypes == {"ping", "icmp", "tcp", "http", "https", "dns"}

\* The HTTP status codes a target answers with.
StatusCodes == {200, 399, 404}

\* ctx.Err() of a context that is done.
CtxErr(parent) ==
    IF parent = "cancelled" THEN "context canceled" ELSE "context deadline exceeded"

\* A check context that does not depend on the enclosing one.
WithTimeoutDetached(parent, timeout) ==
    IF timeout <= 0
    THEN [done |-> TRUE, err |-> "context deadline exceeded", deadline |-> 0]
    ELSE [done |-> FALSE, err |-> "", deadline |-> timeout]

\* context.WithTimeout(ctx, check.Timeout): the child is done as soon as the
\* parent is, and at the latest when the timeout has passed.
WithTimeout(parent, timeout) ==
    IF parent # "live"
    THEN [done |-> TRUE, err |-> CtxErr(parent), deadline |-> 0]
    ELSE IF timeout <= 0
    THEN [done |-> TRUE, err |-> "context deadline exceeded", deadline |-> 0]
    ELSE [done |-> FALSE, err |-> "", deadline |-> timeout]

\* net.Dialer.DialContext and http.Client.Do under the context ctx, against a
\* target that answers after in.latency: a done context gives its error at
\* once, a deadline that passes first gives a timeout when it passes.
DialContext(ctx, in) ==
    IF ctx.done THEN [err |-> ctx.err, took |-> 0]
    ELSE IF in.latency >= ctx.deadline THEN [err |-> "i/o timeout", took |-> ctx.deadline]
    ELSE IF ~in.up THEN [err |-> "connection refused", took |-> in.latency]
    ELSE [err |-> "", took |-> in.latency]

pingCheck(ctx, in) ==
    LET conn == DialContext(ctx, in)
    IN  IF conn.err # ""
        THEN [Success |-> FALSE, Error |-> <<"ping failed", conn.err>>, Duration |-> conn.took]
        ELSE [Success |-> TRUE, Error |-> <<>>, Duration |-> conn.took]

tcpCheck(ctx, in) ==
    LET conn == DialContext(ctx, in)
    IN  IF conn.err # ""
        THEN [Success |-> FALSE, Error |-> <<"tcp check failed", conn.err>>,
              Duration |-> conn.took]
        ELSE [Success |-> TRUE, Error |-> <<>>, Duration |-> conn.took]

httpCheck(ctx, in) ==
    IF in.badURL
    THEN [Success |-> FALSE, Error |-> <<"failed to create request">>, Duration |-> 0]
    ELSE LET resp == DialContext(ctx, in)
         IN  IF resp.err # ""
             THEN [Success |-> FALSE, Error |-> <<"http check failed", resp.err>>,
                   Duration |-> resp.took]
             ELSE IF in.status >= 200 /\ in.status < 400
             THEN [Success |-> TRUE, Error |-> <<>>, Duration |-> resp.took]
             ELSE [Success |-> FALSE, Error |-> <<"http check failed with status">>,
                   Duration |-> resp.took]

\* Checker.RunHealthCheck: Success, Error and Duration of the CheckResult.
RunHealthCheck(in) ==
    LET checkCtx == WithTimeout(in.parent, in.timeout)
    IN  IF in.type \in {"ping", "icmp"} THEN pingCheck(checkCtx, in)
        ELSE IF in.type = "tcp" THEN tcpCheck(checkCtx, in)
        ELSE IF in.type \in {"http", "https"} THEN httpCheck(checkCtx, in)
        ELSE [Success |-> FALSE, Error |-> <<"unknown health check type">>, Duration |-> 0]

\* The enclosing context is cancelled, or its deadline passes, before the call.
ParentDone ==
    /\ probeIn.parent = "live"
    /\ probeOut = ProbeNotRun
    /\ \E how \in {"cancelled", "expired"} : probeIn' = [probeIn EXCEPT !.parent = how]
    /\ UNCHANGED <<cfgVars, ctxDone, held, failedAt, probeOut, findVars, running, ended, monVars, inflight,
                   selVars, foVars>>

RunHealthCheckCall ==
    /\ probeOut = ProbeNotRun
    /\ probeOut' = RunHealthCheck(probeIn)
    /\ UNCHANGED <<cfgVars, ctxDone, held, failedAt, probeIn, findVars, running, ended, monVars, inflight,
                   selVars, foVars>>

\* One probe of any type and timeout against any target, under a context that
\* is live at first.
ProbeInit ==
    /\ monitored = {}
    /\ autoFailover = FALSE
    /\ horizon = 0
    /\ MonInit
    /\ SelIdle
    /\ FoNone
    /\ held = NoHandle
    /\ failedAt = 0
    /\ ended = NoneEnded
    /\ FindIdle
    /\ running = [c \in monitored |-> 0]
    /\ probeIn \in [parent : {"live"}, type : ProbeTypes, timeout : 0..MaxProbeTime,
                    badURL : BOOLEAN, up : BOOLEAN, status : StatusCodes,
                    latency : 0..MaxProbeTime]
    /\ probeOut = ProbeNotRun

ProbeNext ==
    \/ ParentDone
    \/ RunHealthCheckCall

ProbeSpec == ProbeInit /\ [][ProbeNext]_vars

\* C26: a probe run under an enclosing context that is already expired or
\* cancelled returns success = false and an error, and takes no time, whatever
\* its type and its own timeout are.
C26_DoneContextFailsAtOnce ==
    (probeOut # ProbeNotRun /\ probeIn.parent # "live") =>
        /\ ~probeOut.Success
        /\ probeOut.Error # <<>>
        /\ probeOut.Duration = 0
        /\ probeIn.type \in {"ping", "icmp", "tcp"} =>
              probeOut.Error[2] = CtxErr(probeIn.parent)

\* A tcp probe with the longest timeout against a target that is up and
\* answers at once, run under an expired context: it failed with the context's
\* error.
C26_Witness ==
    /\ probeIn.parent = "expired"
    /\ probeIn.type = "tcp"
    /\ probeIn.timeout = MaxProbeTime
    /\ probeIn.up
    /\ probeIn.latency = 0
    /\ probeOut = [Success |-> FALSE,
                   Error |-> <<"tcp check failed", "context deadline exceeded">>,
                   Duration |-> 0]

\* C29: a recovery makes at most max_retries attempts, makes none after the
\* attempt that succeeded, and, every hook and platform call returning,
\* performFailover returns.
C29_BoundedAttemptsTerminate ==
    /\ [](/\ Attempts <= foCfg.maxRetries
          /\ fo.attempt <= foCfg.maxRetries + 1
          /\ fo.result.Success => LoopOver
          /\ \A i \in 1..Len(fo.calls) :
                fo.calls[i] = "start" =>
                    \A j \in (i + 1)..Len(fo.calls) : fo.calls[j] \in {"post", "post!"})
    /\ [][fo.result.Success => Attempts' = Attempts]_vars
    /\ (fo.result.StartTime # NoTime) ~> (fo.pc = "done")

\* All three attempts of a recovery failed, and it has returned.
C29_Witness ==
    /\ foCfg.maxRetries = 3
    /\ Attempts = 3
    /\ FailedAttempts = 3
    /\ fo.pc = "done"
    /\ ~fo.result.Success

\* The second attempt succeeded with a third one allowed, and it has returned.
C29_WitnessSuccess ==
    /\ foCfg.maxRetries = 3
    /\ Attempts = 2
    /\ FailedAttempts = 1
    /\ fo.pc = "done"
    /\ fo.result.Success

\* The calls of BackupContainer and findLatestBackup a recovery has made.
ObtainCalls ==
    Len(SelectSeq(fo.calls, LAMBDA x : x \in {"backup", "find", "backup!", "find!"}))

\* C31: a recovery obtains the backup reference exactly once, after the
\* pre-failover hooks and before the first attempt; every restore of that
\* recovery is given that reference, and no backup is created or looked up
\* between attempts.
C31_BackupObtainedOnce ==
    /\ ObtainCalls <= 1
    /\ fo.backupPath \in {0, 1}
    /\ fo.attempt > 0 =>
          /\ ObtainCalls = 1
          /\ fo.backupPath = 1
          /\ fo.calls[Occurrences("pre") + 1] =
                (IF foCfg.backupBeforeFailover THEN "backup" ELSE "find")
    /\ fo.restoredWith \subseteq {fo.backupPath}
    /\ Occurrences("restore") + Occurrences("restore!") > 0 =>
          fo.restoredWith = {fo.backupPath}

\* Three attempts were made, each restore failed, all with the one reference
\* the lookup before the loop gave.
C31_Witness ==
    /\ ~foCfg.backupBeforeFailover
    /\ Occurrences("find") = 1
    /\ Occurrences("restore!") = 3
    /\ fo.restoredWith = {1}
    /\ fo.pc = "done"

\* ---------------------------------------------------------------------------
\* Engine: findLatestBackup
\* ---------------------------------------------------------------------------

\* The longest backup listing GetBackups is tried with.
MaxListing == 3

\* The container ids findLatestBackup is asked for: 10 is a prefix of 100 and 101.
FindIds == {10, 100, 101}

\* The backups a listing is made of: container backups of the three ids taken
\* at the times 9 and 10, and a backup of the virtual machine 100 taken later.
BackupsTried ==
    [kind : {"vzdump-lxc-"}, id : FindIds, stamp : {9, 10}]
        \cup {[kind |-> "vzdump-qemu-", id |-> 100, stamp |-> 11]}

Digit(d) ==
    CASE d = 0 -> "0" [] d = 1 -> "1" [] d = 2 -> "2" [] d = 3 -> "3" [] d = 4 -> "4"
      [] d = 5 -> "5" [] d = 6 -> "6" [] d = 7 -> "7" [] d = 8 -> "8" [] d = 9 -> "9"

\* fmt's %d of a positive number, character by character.
RECURSIVE Decimal(_)
Decimal(n) == IF n < 10 THEN <<Digit(n)>> ELSE Append(Decimal(n \div 10), Digit(n % 10))

\* The time part of a backup's file name: fixed width, zero padded
\* (time.Format("2006_01_02-15_04_05")), here two digits wide.
TimeFormat(stamp) == <<Digit((stamp \div 10) % 10), Digit(stamp % 10)>>

\* The file name of a backup, as a string of characters; the fixed head and
\* tail of the name are one character each.
Filename(b) == <<b.kind>> \o Decimal(b.id) \o <<"-">> \o TimeFormat(b.stamp) \o <<".tar.zst">>

\* The byte a character of a file name compares by (for the head and tail of
\* the name, the first byte they differ by from any other character).
Byte(ch) ==
    CASE ch = "-" -> 45 [] ch = ".tar.zst" -> 46
      [] ch = "0" -> 48 [] ch = "1" -> 49 [] ch = "2" -> 50 [] ch = "3" -> 51
      [] ch = "4" -> 52 [] ch = "5" -> 53 [] ch = "6" -> 54 [] ch = "7" -> 55
      [] ch = "8" -> 56 [] ch = "9" -> 57
      [] ch = "vzdump-lxc-" -> 108 [] ch = "vzdump-qemu-" -> 113

\* strings.HasPrefix
HasPrefix(str, prefix) ==
    /\ Len(str) >= Len(prefix)
    /\ SubSeq(str, 1, Len(prefix)) = prefix

\* The > of two Go strings: byte-wise lexicographic order.
RECURSIVE Greater(_, _)
Greater(a, b) ==
    IF a = <<>> THEN FALSE
    ELSE IF b = <<>> THEN TRUE
    ELSE IF Byte(Head(a)) # Byte(Head(b)) THEN Byte(Head(a)) > Byte(Head(b))
    ELSE Greater(Tail(a), Tail(b))

\* A prefix that stops at the id.
ContainerBackupPrefixNoDash(containerID) == <<"vzdump-lxc-">> \o Decimal(containerID)

\* fmt.Sprintf("vzdump-lxc-%d-", containerID)
ContainerBackupPrefix(containerID) ==
    <<"vzdump-lxc-">> \o Decimal(containerID) \o <<"-">>

\* findLatestBackup, the loop over the listing from entry i on: latestBackup
\* is <<>> for nil, <<b>> for a pointer to a copy of b.
RECURSIVE LatestFrom(_, _, _, _)
LatestFrom(backups, i, prefix, latestBackup) ==
    IF i > Len(backups) THEN latestBackup
    ELSE IF ~HasPrefix(Filename(backups[i]), prefix)
    THEN LatestFrom(backups, i + 1, prefix, latestBackup)
    ELSE IF latestBackup = <<>> \/ Greater(Filename(backups[i]), Filename(latestBackup[1]))
    THEN LatestFrom(backups, i + 1, prefix, <<backups[i]>>)
    ELSE LatestFrom(backups, i + 1, prefix, latestBackup)

\* Engine.findLatestBackup: the backup whose "storage:filename" it returns, or
\* the error.
findLatestBackup(in) ==
    IF in.listErr THEN [path |-> <<>>, err |-> <<"failed to get backups">>]
    ELSE LET latestBackup ==
                 LatestFrom(in.backups, 1, ContainerBackupPrefix(in.containerID), <<>>)
         IN  IF latestBackup = <<>>
             THEN [path |-> <<>>, err |-> <<"no backup found for container">>]
             ELSE [path |-> latestBackup, err |-> <<>>]

FindLatestBackupCall ==
    /\ findOut = FindNotRun
    /\ findOut' = findLatestBackup(findIn)
    /\ UNCHANGED <<cfgVars, ctxDone, held, failedAt, probeVars, findIn, running, ended, monVars,
                   inflight, selVars, foVars>>

\* All listings of up to MaxListing entries.
Listings == UNION {[1..n -> BackupsTried] : n \in 0..MaxListing}

\* One lookup for any of the ids in any listing, or with GetBackups failing.
FindInit ==
    /\ monitored = {}
    /\ autoFailover = FALSE
    /\ horizon = 0
    /\ MonInit
    /\ SelIdle
    /\ FoNone
    /\ held = NoHandle
    /\ failedAt = 0
    /\ ended = NoneEnded
    /\ ProbeIdle
    /\ running = [c \in monitored |-> 0]
    /\ findIn \in [containerID : FindIds, listErr : BOOLEAN, backups : Listings]
    /\ findOut = FindNotRun

FindNext == FindLatestBackupCall

FindSpec == FindInit /\ [][FindNext]_vars

\* The entries of the listing that are backups of the container looked for.
BackupsOf(in) ==
    {i \in 1..Len(in.backups) :
        in.backups[i].kind = "vzdump-lxc-" /\ in.backups[i].id = in.containerID}

\* C32: findLatestBackup returns a backup of the container it was asked for,
\* never one of a container whose id only begins with the same digits, and no
\* backup of that container in the listing is more recent; when the listing
\* holds no backup of the container, or cannot be had, it returns an error.
C32_LatestBackupOfContainer ==
    findOut # FindNotRun =>
        IF findIn.listErr \/ BackupsOf(findIn) = {}
        THEN findOut.path = <<>> /\ findOut.err # <<>>
        ELSE /\ findOut.err = <<>>
             /\ Len(findOut.path) = 1
             /\ \E i \in BackupsOf(findIn) : findIn.backups[i] = findOut.path[1]
             /\ \A i \in BackupsOf(findIn) : findIn.backups[i].stamp <= findOut.path[1].stamp

\* Container 10 is looked for in a listing that has a later backup of
\* container 100 first, then the older and the newer backup of 10: the newer
\* backup of 10 is returned.
C32_Witness ==
    /\ findIn.containerID = 10
    /\ Len(findIn.backups) = 3
    /\ findIn.backups[1] = [kind |-> "vzdump-lxc-", id |-> 100, stamp |-> 10]
    /\ findIn.backups[2] = [kind |-> "vzdump-lxc-", id |-> 10, stamp |-> 9]
    /\ findIn.backups[3] = [kind |-> "vzdump-lxc-", id |-> 10, stamp |-> 10]
    /\ findOut.path = <<[kind |-> "vzdump-lxc-", id |-> 10, stamp |-> 10]>>

\* ---------------------------------------------------------------------------
\* Who reads the live ContainerState
\* ---------------------------------------------------------------------------

\* A callback started by `go callback(state.ID, state)` has not run yet: its
\* first statement reads state.FailureCount through the pointer to the live
\* entry, without statesMu.
UnlockedReadAhead(c) == pendingCb[c] > 0

\* The check cycle of c that is under way may still write FailureCount:
\* recordFailure after a failed GetContainer or a failed probe, recordSuccess
\* when the count is to be reset.
WriteAhead(c) ==
    \/ chk[c].pc = "fetch"
    \/ chk[c].pc = "probe"
    \/ chk[c].pc = "record" /\ (~chk[c].allHealthy \/ states[c].FailureCount > 0)

\* C33: no reader outside the monitor reads a field of the live state without
\* the lock while a check cycle may write it: whenever a cycle of a container
\* has a write of the failure count ahead, no failure callback of that
\* container is about to read the count through the live pointer.
C33_NoUnlockedReadDuringCheck ==
    \A c \in monitored : ~(UnlockedReadAhead(c) /\ WriteAhead(c))

\* ---------------------------------------------------------------------------
\* Engine: a series of breach notifications
\* ---------------------------------------------------------------------------

\* The number of notifications the engine is given one after the other.
MaxNotifications == 3

\* A failover section with hooks of both kinds and one retry.
NotifyConfig ==
    [maxRetries |-> 2, backupBeforeFailover |-> TRUE, preHooks |-> 2, postHooks |-> 2]

\* HandleContainerFailure has returned and the monitor's callback goroutine
\* ends; the next notification finds the engine as it was.
NextNotification ==
    /\ fo.pc = "done"
    /\ fo.seen + 1 < MaxNotifications
    /\ fo' = [FoIdle EXCEPT !.seen = fo.seen + 1]
    /\ UNCHANGED <<cfgVars, ctxDone, obsVars, monVars, inflight, selVars, foCfg>>

NotifyInit ==
    /\ monitored = {100}
    /\ autoFailover \in BOOLEAN
    /\ horizon = 0
    /\ MonInit
    /\ SelIdle
    /\ foCfg = NotifyConfig
    /\ fo = FoIdle
    /\ ObsNone

NotifyNext ==
    \/ \E c \in Containers : HandleContainerFailureCall(c)
    \/ NextNotification
    \/ PreFailoverHook
    \/ ObtainBackup
    \/ StopContainer
    \/ RestoreContainerFromBackup
    \/ StartContainer
    \/ PostFailoverHook
    \/ PerformFailoverReturn

NotifySpec == NotifyInit /\ [][NotifyNext]_vars

\* C34: with auto_failover off, every notification, for any container and
\* however many came before, returns nil without a query of the platform, a
\* selection, a hook, or a backup, stop, restore or start call.
C34_DisabledDoesNothing ==
    ~autoFailover =>
        /\ fo.pc \in {"idle", "done"}
        /\ fo.ret = <<>>
        /\ fo.lookups = 0
        /\ fo.selCalls = 0
        /\ fo.hook = 0
        /\ fo.calls = <<>>
        /\ fo.result = NewResult

\* With auto_failover off, the third notification, for a container that is
\* not configured, has returned.
C34_Witness ==
    /\ ~autoFailover
    /\ fo.seen = 2
    /\ fo.kind = "auto"
    /\ fo.c = 101
    /\ fo.pc = "done"

\* C35: every result performFailover returns has Success exactly when it has
\* no Error, and a recovery without a successful attempt makes its entry point
\* return that error, for every max_retries the configuration may hold.
C35_SuccessIffNoError ==
    Returned =>
        /\ fo.result.Success <=> fo.result.Error = <<>>
        /\ (fo.pc = "done" /\ Occurrences("start") = 0) =>
              fo.ret # <<>> /\ fo.ret = fo.result.Error

\* The same for a max_retries of at least 1.
C35_SuccessIffNoErrorWithAttempts ==
    foCfg.maxRetries >= 1 => C35_SuccessIffNoError

\* C36: the delays slept between the attempts of a recovery grow: the delay
\* before attempt n + 1 is strictly larger than the delay before attempt n.
C36_DelaysGrow ==
    \A n \in 1..(Len(fo.slept) - 1) : fo.slept[n + 1] > fo.slept[n]

\* The container runs on the target node: a restore and the start after it
\* succeeded.
TargetUp == Occurrences("start") = 1

\* C37: a recovery that has stopped the container on its source node does not
\* end with the container stopped there and no instance running on the
\* target.
C37_NotLeftStopped ==
    (fo.pc = "done" /\ fo.sourceStopped) => TargetUp

\* C38: post-failover hooks run only in a recovery whose result has
\* Success = true, that is after a restore and the start after it succeeded,
\* whatever max_retries is.
C38_PostHooksOnlyAfterSuccess ==
    (fo.pc = "post" \/ Occurrences("post") + Occurrences("post!") > 0) =>
        /\ fo.result.Success
        /\ Occurrences("restore") >= 1
        /\ Occurrences("start") = 1

\* The same for a max_retries of at least 1.
C38_PostHooksOnlyAfterSuccessWithAttempts ==
    foCfg.maxRetries >= 1 => C38_PostHooksOnlyAfterSuccess

\* The two counters of a ContainerState.
Counts(st) == <<st.FailureCount, st.HealthyCount>>

\* C39: at any time at most one checkContainer goroutine is running for a
\* container, and the counter updates of two cycles of a container never
\* interleave: a running cycle finds the counters as the cycle before left
\* them, and the one step that updates them is the last of its cycle.
C39_OneCyclePerContainer ==
    /\ [](\A c \in monitored :
            /\ running[c] \in {0, 1}
            /\ running[c] = 1 <=> chk[c].pc \in {"fetch", "probe", "record"}
            /\ (running[c] = 1 /\ c \in DOMAIN states) =>
                  Counts(states[c]) = <<pre[c].snap.FailureCount, pre[c].snap.HealthyCount>>)
    /\ [][\A c \in DOMAIN states :
            (c \in DOMAIN states' /\ Counts(states'[c]) # Counts(states[c])) =>
                running[c] = 1 /\ running'[c] = 0]_vars

\* In the second tick container 101 has counted its second failure and its
\* goroutine has returned, while the cycle of container 100 is still probing
\* with the count of its first tick.
C39_Witness ==
    /\ monitored = Containers
    /\ now = 2
    /\ running[101] = 0
    /\ states[101].FailureCount = 2
    /\ running[100] = 1
    /\ chk[100].pc = "probe"
    /\ states[100].FailureCount = 1

\* ---------------------------------------------------------------------------
\* The daemon with its recoveries counted
\* ---------------------------------------------------------------------------
RecoverInit ==
    /\ monitored = FailContainers
    /\ autoFailover = TRUE
    /\ horizon = MaxTicks - 1
    /\ MonInit
    /\ SelIdle
    /\ FoNone
    /\ ObsNone

RecoverNext ==
    \/ StartInit
    \/ TickStart
    \/ TickJoin
    \/ \E c \in monitored : CheckFetchErr(c)
    \/ \E c \in monitored : CheckFetchOk(c)
    \/ \E c \in monitored : CheckProbe(c)
    \/ \E c \in monitored : CheckStore(c)
    \/ \E c \in monitored : CheckRecord(c)
    \/ \E c \in monitored : HandleContainerFailure(c)
    \/ \E c \in monitored : RecoveryReturns(c)

RecoverSpec == RecoverInit /\ [][RecoverNext]_vars

\* C40: the callback, the start of a recovery and its return, with success or
\* without, leave every ContainerState as it is; a failure count goes back to
\* zero only in the recordSuccess of a healthy check cycle.
C40_RecoveryLeavesCounters ==
    /\ [][(ended' # ended \/ inflight' # inflight
              \/ \E c \in monitored : pendingCb'[c] < pendingCb[c]) =>
            states' = states]_vars
    /\ [][\A c \in DOMAIN states :
            (states[c].FailureCount > 0 /\ states'[c].FailureCount = 0) =>
                RecordSuccessStep(c) /\ ended' = ended]_vars

\* A recovery has succeeded and none is in progress; the failure count is
\* still the one that set it off.
C40_Witness ==
    /\ ended = [ok |-> 1, failed |-> 0]
    /\ \A c \in monitored :
          /\ inflight[c] = 0
          /\ pendingCb[c] = 0
          /\ states[c].FailureCount = FailureThreshold
          /\ states[c].HealthyCount = 0

\* After a recovery that succeeded, a healthy cycle has set the failure count
\* back to zero.
C40_WitnessReset ==
    /\ ended = [ok |-> 1, failed |-> 0]
    /\ \A c \in monitored :
          /\ states[c].FailureCount = 0
          /\ states[c].HealthyCount = 1

====
